---- MODULE Spec2Model ----
(***************************************************************************)
(* The order checkout of the swag shop: the route tree, the entity-        *)
(* resolving middlewares (CampaignMw, OrderMw), the CampaignHandler's      *)
(* ShowActive and the OrderHandler's New, Create, Show and Confirm, run as *)
(* concurrent requests against one storage backend and one payment         *)
(* processor.  Every call to a collaborator is one atomic step of the      *)
(* request that makes it; a request blocks on the call and then continues. *)
(***************************************************************************)
EXTENDS Integers, Sequences, FiniteSets, TLC

VARIABLES
    reqs,        \* request slot -> the request-local state of the invocation in flight
    returned,    \* the invocation that returned in the last step, with its response
    orders,      \* storage: the orders table, in insertion order
    customers,   \* payment processor: the customers created so far
    charges      \* payment processor: the charges created so far

vars == <<reqs, returned, orders, customers, charges>>

----------------------------------------------------------------------------
(* Bounds *)

NumRequests  == 2    \* request slots that may be in flight together
MaxOrders    == 1    \* rows the orders table may hold
MaxCustomers == 1    \* customers the processor may hold
MaxCharges   == 2    \* charges the processor may hold
MaxCreated   == 2    \* customers and orders a run of Create requests may add
MaxElements  == 3    \* elements of a path handed to Clean and Split

Requests == 1 .. NumRequests

----------------------------------------------------------------------------
(* Strings *)

Lower == "abcdefghijklmnopqrstuvwxyz"
Upper == "ABCDEFGHIJKLMNOPQRSTUVWXYZ"
Digits == "0123456789"

Char(s, i) == SubSeq(s, i, i)

\* the position of the one-character string c in s, 0 when it is not there
RECURSIVE IndexFrom(_, _, _)
IndexFrom(s, c, i) ==
    IF i > Len(s) THEN 0
    ELSE IF Char(s, i) = c THEN i
    ELSE IndexFrom(s, c, i + 1)

IndexOf(s, c) == IndexFrom(s, c, 1)

\* strings.ToUpper
RECURSIVE ToUpperFrom(_, _)
ToUpperFrom(s, i) ==
    IF i > Len(s) THEN ""
    ELSE LET c == Char(s, i)
             k == IndexOf(Lower, c)
         IN  (IF k = 0 THEN c ELSE Char(Upper, k)) \o ToUpperFrom(s, i + 1)

ToUpper(s) == ToUpperFrom(s, 1)

\* strings.Replace(s, old, new, 1): the first occurrence of old becomes new
RECURSIVE ReplaceFirstFrom(_, _, _, _)
ReplaceFirstFrom(s, old, new, i) ==
    IF i + Len(old) - 1 > Len(s) THEN s
    ELSE IF SubSeq(s, i, i + Len(old) - 1) = old
         THEN SubSeq(s, 1, i - 1) \o new \o SubSeq(s, i + Len(old), Len(s))
         ELSE ReplaceFirstFrom(s, old, new, i + 1)

ReplaceFirst(s, old, new) == ReplaceFirstFrom(s, old, new, 1)

\* strconv.Atoi: an optional sign followed by one or more decimal digits
RECURSIVE DigitsValue(_, _, _)
DigitsValue(s, i, acc) ==
    IF i > Len(s) THEN acc
    ELSE DigitsValue(s, i + 1, 10 * acc + (IndexOf(Digits, Char(s, i)) - 1))

RECURSIVE AllDigitsFrom(_, _)
AllDigitsFrom(s, i) ==
    IF i > Len(s) THEN TRUE
    ELSE IndexOf(Digits, Char(s, i)) # 0 /\ AllDigitsFrom(s, i + 1)

AtoiBody(s) ==
    IF Len(s) > 0 /\ (Char(s, 1) = "+" \/ Char(s, 1) = "-") THEN SubSeq(s, 2, Len(s)) ELSE s

AtoiOk(s) == Len(AtoiBody(s)) > 0 /\ AllDigitsFrom(AtoiBody(s), 1)

Atoi(s) ==
    IF Len(s) > 0 /\ Char(s, 1) = "-"
    THEN 0 - DigitsValue(AtoiBody(s), 1, 0)
    ELSE DigitsValue(AtoiBody(s), 1, 0)

\* strings.HasPrefix
HasPrefix(s, prefix) ==
    Len(s) >= Len(prefix) /\ SubSeq(s, 1, Len(prefix)) = prefix

\* a / b with the quotient truncated toward zero, as Go divides integers
Quot(a, b) == IF a >= 0 THEN a \div b ELSE 0 - ((0 - a) \div b)

----------------------------------------------------------------------------
(* Paths (package urlpath) *)

\* the elements of a path: the texts between its separators, in order
RECURSIVE ElementsFrom(_, _, _)
ElementsFrom(path, i, cur) ==
    IF i > Len(path) THEN <<cur>>
    ELSE IF Char(path, i) = "/"
         THEN <<cur>> \o ElementsFrom(path, i + 1, "")
         ELSE ElementsFrom(path, i + 1, cur \o Char(path, i))

\* path.Clean on a rooted path, element by element: empty and "." elements
\* are dropped, ".." drops the element before it and is itself dropped at the root
RECURSIVE CleanElements(_, _, _)
CleanElements(elems, i, out) ==
    IF i > Len(elems) THEN out
    ELSE IF elems[i] = "" \/ elems[i] = "." THEN CleanElements(elems, i + 1, out)
    ELSE IF elems[i] = ".."
         THEN CleanElements(elems, i + 1,
                            IF Len(out) = 0 THEN out ELSE SubSeq(out, 1, Len(out) - 1))
         ELSE CleanElements(elems, i + 1, Append(out, elems[i]))

RECURSIVE JoinElements(_, _)
JoinElements(elems, i) ==
    IF i > Len(elems) THEN ""
    ELSE "/" \o elems[i] \o JoinElements(elems, i + 1)

\* path.Clean("/" + path)
StdClean(path) ==
    LET out == CleanElements(ElementsFrom("/" \o path, 1, ""), 1, <<>>)
    IN  IF Len(out) = 0 THEN "/" ELSE JoinElements(out, 1)

\* a slip: no trailing separator is added
CleanNoTrailing(path) == StdClean(path)

\* urlpath.Clean: the path made rooted and shortest, with a trailing separator
Clean(path) ==
    LET p == StdClean(path)
    IN  IF Char(p, Len(p)) # "/" THEN p \o "/" ELSE p

\* strings.SplitN(s, "/", 2)
SplitN2(s) ==
    LET k == IndexOf(s, "/")
    IN  IF k = 0 THEN <<s>> ELSE <<SubSeq(s, 1, k - 1), SubSeq(s, k + 1, Len(s))>>

\* a slip: the rest of the path is returned as SplitN left it
SplitTailUncleaned(path) ==
    LET p == Clean(path)
        parts == SplitN2(SubSeq(p, 2, Len(p)))
        both == IF Len(parts) < 2 THEN Append(parts, "/") ELSE parts
    IN  [head |-> both[1], tail |-> both[2]]

\* urlpath.Split: the first element of the path, and the rest of it cleaned
Split(path) ==
    LET p == Clean(path)
        parts == SplitN2(SubSeq(p, 2, Len(p)))
        both == IF Len(parts) < 2 THEN Append(parts, "/") ELSE parts
    IN  [head |-> both[1], tail |-> Clean(both[2])]

\* http.StripPrefix: the path without the prefix; the request is answered
\* "not found" when the path does not start with it
StripPrefix(prefix, path) == SubSeq(path, Len(prefix) + 1, Len(path))

----------------------------------------------------------------------------
(* Data model *)

\* durations and instants are counted in milliseconds
Second == 1000
Minute == 60 * Second
Hour == 60 * Minute
Day == 24 * Hour

\* the campaigns table: read-only in this scope.  Times are counted from the
\* start of the server, which creates campaign 1 to end an hour later.
Campaigns ==
    (1 :> [ID |-> 1, Price |-> 1200, EndsAt |-> Hour])
        @@ (2 :> [ID |-> 2, Price |-> 1000, EndsAt |-> 2 * Day + Hour])
        @@ (3 :> [ID |-> 3, Price |-> 1999, EndsAt |-> Hour])

NoCampaign == [ID |-> 0, Price |-> 0, EndsAt |-> 0]

\* the instants the injected clock may report when ShowActive reads it
Nows ==
    {0, 1, Hour - Minute, Hour - Minute + 1, Hour - Second - 500, Hour,
     Hour + Second + 500, Day + Hour, 2 * Day - Hour}

\* the instant the clock shows while the whole site is exercised
Opening == {0}

StripePublicKey == "pk_test_pfEqL5GDjl8h4pXjv8CWpi80"

NoOrder ==
    [ID |-> 0, CampaignID |-> 0,
     Customer |-> [Name |-> "", Email |-> ""],
     Address |-> [Street1 |-> "", Street2 |-> "", City |-> "", State |-> "",
                  Zip |-> "", Country |-> "", Raw |-> ""],
     Payment |-> [Source |-> "", CustomerID |-> "", ChargeID |-> ""]]

\* the decoded form of a Create request, with the one-time payment token
NoForm ==
    [Name |-> "", Email |-> "", Street1 |-> "", Street2 |-> "", City |-> "",
     State |-> "", Zip |-> "", Country |-> "", StripeToken |-> ""]

Forms ==
    { [Name |-> "Chris Greene", Email |-> "chris@test.com",
       Street1 |-> "PO Box 295", Street2 |-> "", City |-> "Bedford",
       State |-> "PA", Zip |-> "15522", Country |-> "United States",
       StripeToken |-> "secret-stripe-token"],
      [NoForm EXCEPT !.Name = "Jane Doe", !.StripeToken = "secret-stripe-token"] }

\* a slip: the block is left as formatted
RawAddressUncollapsed(f) ==
    ToUpper(f.Name \o "\n" \o f.Street1 \o "\n" \o f.Street2 \o "\n" \o
            f.City \o " " \o f.State \o "  " \o f.Zip \o "\n" \o f.Country)

\* the raw address block Create derives from the form
RawAddress(f) ==
    ToUpper(ReplaceFirst(
        f.Name \o "\n" \o f.Street1 \o "\n" \o f.Street2 \o "\n" \o
        f.City \o " " \o f.State \o "  " \o f.Zip \o "\n" \o f.Country,
        "\n\n", "\n"))

\* the values a Confirm request may submit as address-raw
AddressRaws ==
    {"NEW ADDRESS HERE"} \cup {RawAddress(f) : f \in {g \in Forms : g.Email # ""}}

\* r.ParseForm(); r.PostFormValue("address-raw"): the body is read as a form
\* for a POST, and no other request of the model carries a form
PostedAddressRaws(method) == IF method = "POST" THEN AddressRaws ELSE {""}

\* the payment customer IDs a request under /orders/ may name: those the
\* processor may have made, and one more
OrderHeads == {"cus_" \o ToString(n) : n \in 1 .. MaxCustomers + 1}

\* the requests a client may send: a method and a URL path
Target(method, url) == [method |-> method, url |-> url]

Targets ==
    {Target("GET", "/"),
     Target("GET", "/campaigns/1/orders/new"),
     Target("POST", "/campaigns/1/orders/"),
     Target("POST", "/campaigns/2/orders"),
     Target("GET", "/campaigns/2/orders/"),
     Target("POST", "/campaigns/7/orders/"),
     Target("GET", "/campaigns/new/orders/new"),
     Target("GET", "/campaigns/1")}
        \cup {Target("GET", "/orders/" \o h) : h \in OrderHeads}
        \cup {Target("POST", "/orders/" \o h \o "/confirm/") : h \in OrderHeads}

\* the requests under /orders/ alone: those of Targets, a deeper path below
\* each order, and the confirm URL asked for with GET
OrderTargets ==
    {Target("GET", "/orders/" \o h) : h \in OrderHeads}
        \cup {Target("POST", "/orders/" \o h \o "/confirm/") : h \in OrderHeads}
        \cup {Target("GET", "/orders/" \o h \o "/id/here") : h \in OrderHeads}
        \cup {Target("GET", "/orders/cus_1/confirm")}

\* the requests outside /campaigns/ and /orders/ alone, whatever the method
RootTargets ==
    {Target(m, u) : m \in {"GET", "POST"}, u \in {"/", "/about"}}

ChargeStatuses == {"succeeded", "pending", "failed", "unknown"}

StripeErrorMessages == {"Failed to charge your card!"}

\* response bodies and log lines
MsgGeneric == "Something went wrong..."
MsgPayment == "Something went wrong processing your payment information. Try again, or contact me - jon@calhoun.io - if the problem persists."
MsgCard == "Something went wrong processing your card. Please contact me for support - jon@calhoun.io"
MsgCharged == "You were charged, but something went wrong saving your data. Please contact me for support - jon@calhoun.io"
MsgLookup == "Failed to lookup the status of your order. Please try again, or contact me if this persists - jon@calhoun.io"
MsgSucceeded == "Your order has been completed successfully! You will be contacted when it ships."
MsgPending == "Your payment is still pending."
MsgFailed == "Your payment failed. :( Please create a new order with a new card if you want to try again."
MsgNotFound == "404 page not found"
LogCampaign == "error retrieving order campaign\n"

NoData == [ID |-> "", Address |-> "", Price |-> 0]

\* an error value: a processor-classified stripe.Error or any other error
NoError == [stripe |-> FALSE, Message |-> ""]
ErrNoRows == [stripe |-> FALSE, Message |-> "sql: no rows in result set"]
ErrConnDone == [stripe |-> FALSE, Message |-> "sql: connection is already closed"]

\* a call made to a collaborator: the operation, its arguments (n: the numeric
\* one, a and b: the textual ones) and the error it returned
Call(op, n, a, b, err) == [op |-> op, n |-> n, a |-> a, b |-> b, err |-> err]

Ok(c) == c.err = NoError

\* the request-local state of an invocation: the request as the handler in
\* control sees it (method, path, the keys of its context with the campaign and
\* the order they hold), the response written so far, and the calls made
IdleRequest ==
    [pc |-> "idle", route |-> "", method |-> "", path |-> "", ctx |-> {},
     head |-> "", leaf |-> "",
     form |-> NoForm, addressRaw |-> "",
     campaign |-> NoCampaign, order |-> NoOrder, chargeStatus |-> "",
     status |-> 0, body |-> "", location |-> "", tmpl |-> "", data |-> NoData,
     left |-> 0, requestURI |-> "", calls |-> <<>>, logs |-> <<>>]

----------------------------------------------------------------------------
(* Responses *)

\* http.Error / http.NotFound: a status and a message, the request is over
HttpError(q, msg, code) == [q EXCEPT !.pc = "done", !.status = code, !.body = msg]

\* fmt.Fprint(w, msg) on a fresh response: the status defaults to 200
Fprint(q, msg) == [q EXCEPT !.pc = "done", !.status = 200, !.body = msg]

\* http.Redirect(w, r, url, http.StatusFound)
Redirect(q, url) == [q EXCEPT !.pc = "done", !.status = 302, !.location = url]

\* Template.Execute(w, data) on a fresh response
Execute(q, tmpl, data) ==
    [q EXCEPT !.pc = "done", !.status = 200, !.tmpl = tmpl, !.data = data]

Logged(q, line) == [q EXCEPT !.logs = Append(@, line)]

Called(q, c) == [q EXCEPT !.calls = Append(@, c)]

----------------------------------------------------------------------------
(* The storage collaborator *)

\* GetCampaign(id): the campaign with that ID, if the table has it
DBHasCampaign(id) == id \in DOMAIN Campaigns

DBGetCampaign(id) == Campaigns[id]

\* the error of a failed GetCampaign(id): no such row, or storage is unavailable
DBGetCampaignError(id) == IF DBHasCampaign(id) THEN ErrConnDone ELSE ErrNoRows

\* GetOrderViaPayCus(payCustomerID): the order whose payment customer ID is the argument
DBOrdersViaPayCus(payCusID) ==
    {i \in DOMAIN orders : orders[i].Payment.CustomerID = payCusID}

DBGetOrderViaPayCus(payCusID) ==
    orders[CHOOSE i \in DBOrdersViaPayCus(payCusID) :
               \A j \in DBOrdersViaPayCus(payCusID) : i <= j]

DBGetOrderViaPayCusError(payCusID) ==
    IF DBOrdersViaPayCus(payCusID) # {} THEN ErrConnDone ELSE ErrNoRows

\* CreateOrder(&order): inserts the order; storage assigns its ID
DBNextOrderID == Len(orders) + 1

DBCreateOrder(order) == Append(orders, [order EXCEPT !.ID = DBNextOrderID])

\* ConfirmOrder(orderID, addressRaw, chargeID):
\* UPDATE orders SET adr_raw = $2, pay_charge_id = $3 WHERE id = $1
DBConfirmOrder(orderID, addressRaw, chargeID) ==
    [i \in DOMAIN orders |->
        IF orders[i].ID = orderID
        THEN [orders[i] EXCEPT !.Address.Raw = addressRaw,
                               !.Payment.ChargeID = chargeID]
        ELSE orders[i]]

----------------------------------------------------------------------------
(* The payment collaborator *)

\* Customer(token, email): a durable customer made from the one-time token
StripeNextCustomerID == "cus_" \o ToString(Len(customers) + 1)

StripeCustomer(token, email) ==
    Append(customers, [ID |-> StripeNextCustomerID, Token |-> token, Email |-> email])

\* Charge(customerID, amount): a charge of amount minor units against the customer
StripeNextChargeID == "chg_" \o ToString(Len(charges) + 1)

StripeCharge(customerID, amount) ==
    Append(charges, [ID |-> StripeNextChargeID, CustomerID |-> customerID,
                     Amount |-> amount])

\* GetCharge(chargeID): the charge is known to the processor
StripeHasCharge(chargeID) == \E i \in DOMAIN charges : charges[i].ID = chargeID

\* the errors a call to the processor may return: a processor-classified
\* stripe.Error carrying a message, or any other error
StripeErrors ==
    {[stripe |-> TRUE, Message |-> m] : m \in StripeErrorMessages}
        \cup {[stripe |-> FALSE, Message |-> "not a stripe error"]}

----------------------------------------------------------------------------
(* Requests *)

Init ==
    /\ reqs = [r \in Requests |-> IdleRequest]
    /\ returned = IdleRequest
    /\ orders = <<>>
    /\ customers = <<>>
    /\ charges = <<>>

\* The invocation on slot r moves on to q.  When q has written its response the
\* handler returns: the slot is free again and q is the invocation that returned.
Set(r, q) ==
    IF q.pc = "done"
    THEN /\ reqs' = [reqs EXCEPT ![r] = IdleRequest]
         /\ returned' = q
    ELSE /\ reqs' = [reqs EXCEPT ![r] = q]
         /\ returned' = IdleRequest

Free(r) == reqs[r].pc = "idle"

----------------------------------------------------------------------------
(* The route tree (server.go) *)

\* the top-level mux cleans the path, then dispatches on its first element
Route(url) ==
    IF HasPrefix(Clean(url), "/campaigns/") THEN "campaigns"
    ELSE IF HasPrefix(Clean(url), "/orders/") THEN "orders"
    ELSE "root"

\* the request as the handler of its route receives it: under /campaigns/ and
\* /orders/ the prefix is stripped from the cleaned path
Arrive(t) ==
    [IdleRequest EXCEPT
        !.route = Route(t.url),
        !.method = t.method,
        !.requestURI = t.url,
        !.path = IF Route(t.url) = "root" THEN Clean(t.url)
                 ELSE StripPrefix("/" \o Route(t.url), Clean(t.url))]

\* every request a client may send, as the handler of its route receives it,
\* with its path split into the head segment and the tail
ArrivalsOf(targets) ==
    {[req |-> [Arrive(t) EXCEPT !.head = Split(Arrive(t).path).head],
      tail |-> Split(Arrive(t).path).tail] : t \in targets}

Arrivals == ArrivalsOf(Targets)

OrderArrivals == ArrivalsOf(OrderTargets)

RootArrivals == ArrivalsOf(RootTargets)

\* http.NotFound
NotFound(q) == HttpError(q, MsgNotFound, 404)

\* a slip: Create is reached whatever the method
CampaignsLeafAnyMethod(method, path) ==
    IF ~HasPrefix(path, "/orders/") THEN "NotFound"
    ELSE IF HasPrefix(StripPrefix("/orders", path), "/new/") THEN "New"
    ELSE "Create"

\* campaignsMux: the handler reached with the path the Campaign middleware
\* left: /orders/new/ is New, a POST elsewhere under /orders/ is Create
CampaignsLeaf(method, path) ==
    IF ~HasPrefix(path, "/orders/") THEN "NotFound"
    ELSE IF HasPrefix(StripPrefix("/orders", path), "/new/") THEN "New"
    ELSE IF method = "POST" THEN "Create"
    ELSE "NotFound"

\* a slip: the two patterns are registered with each other's handler
OrdersLeafSwapped(method, path) ==
    IF HasPrefix(path, "/confirm/") THEN "Show" ELSE "Confirm"

\* ordersMux: the handler reached with the path the Order middleware left
OrdersLeaf(method, path) ==
    IF HasPrefix(path, "/confirm/") THEN "Confirm" ELSE "Show"

\* the inner handler of a middleware is invoked: the mux calls the leaf handler
\* or answers "not found" itself
Serve(q, leaf) ==
    IF leaf = "NotFound"
    THEN NotFound([q EXCEPT !.leaf = leaf])
    ELSE [q EXCEPT !.pc = leaf, !.leaf = leaf]

----------------------------------------------------------------------------
(* CampaignHandler.ShowActive *)

\* the active campaign, as storage reports it: any campaign of the table
DBActiveCampaigns == {Campaigns[id] : id \in DOMAIN Campaigns}

\* a slip: a unit fits only when the time left exceeds it
TimeLeftExceeding(left) ==
    IF left > Day THEN [Value |-> Quot(left, Day), Unit |-> "day(s)"]
    ELSE IF left > Hour THEN [Value |-> Quot(left, Hour), Unit |-> "hour(s)"]
    ELSE IF left > Minute THEN [Value |-> Quot(left, Minute), Unit |-> "minute(s)"]
    ELSE [Value |-> Quot(left, Second), Unit |-> "second(s)"]

\* the time left, in the single largest whole unit that fits
TimeLeft(left) ==
    IF left >= Day THEN [Value |-> Quot(left, Day), Unit |-> "day(s)"]
    ELSE IF left >= Hour THEN [Value |-> Quot(left, Hour), Unit |-> "hour(s)"]
    ELSE IF left >= Minute THEN [Value |-> Quot(left, Minute), Unit |-> "minute(s)"]
    ELSE [Value |-> Quot(left, Second), Unit |-> "second(s)"]

\* the data of the active-campaign view
ActiveData(campaign, now) ==
    [ID |-> campaign.ID, Price |-> Quot(campaign.Price, 100),
     TimeLeft |-> TimeLeft(campaign.EndsAt - now)]

\* a slip: any error of the lookup is taken for "no active campaign"
ActiveCampaignFailedEnded(q, err) == Execute(q, "Ended", NoData)

\* storage failed to look up the active campaign
ActiveCampaignFailed(q, err) ==
    HttpError(Logged(q, "Error retrieving the active campaign. err = " \o err.Message),
              MsgGeneric, 500)

\* A request outside /campaigns/ and /orders/, one of arrivals, arrives on a
\* free slot: the active campaign is looked up and shown, with the time left
\* on the clock, which shows an instant of nows
ShowActiveOf(r, arrivals, nows) ==
    /\ Free(r)
    /\ \E a \in arrivals :
          /\ a.req.route = "root"
          /\ LET q == [a.req EXCEPT !.leaf = "ShowActive", !.head = ""]
                 c == Call("ActiveCampaign", 0, "", "", NoError)
             IN  \/ \E campaign \in DBActiveCampaigns, now \in nows :
                       Set(r, Execute([Called(q, c) EXCEPT
                                          !.campaign = campaign,
                                          !.left = campaign.EndsAt - now],
                                      "Show", ActiveData(campaign, now)))
                 \/ Set(r, Execute(Called(q, [c EXCEPT !.err = ErrNoRows]),
                                   "Ended", NoData))
                 \/ Set(r, ActiveCampaignFailed(
                               Called(q, [c EXCEPT !.err = ErrConnDone]), ErrConnDone))
    /\ UNCHANGED <<orders, customers, charges>>

ShowActive(r) == ShowActiveOf(r, Arrivals, Opening)

----------------------------------------------------------------------------
(* CampaignHandler.CampaignMw *)

\* the campaign was not resolved: the ID is not a number, or storage failed
CampaignMwFailed(q) == NotFound(q)

\* a slip: the inner handler sees the path with the head segment still on it
CampaignMwNextUnsplit(q, campaign, path) ==
    Serve([q EXCEPT !.ctx = @ \cup {"campaign"}, !.campaign = campaign],
          CampaignsLeaf(q.method, path))

\* the campaign was resolved: it is put in the context, the path becomes the
\* tail and the inner handler is invoked
CampaignMwNext(q, campaign, path) ==
    Serve([q EXCEPT !.ctx = @ \cup {"campaign"}, !.campaign = campaign,
                    !.path = path],
          CampaignsLeaf(q.method, path))

\* A request under /campaigns/ arrives on a free slot and runs through the
\* middleware into the handler its path and method select.
CampaignMw(r) ==
    /\ Free(r)
    /\ \E a \in Arrivals :
          /\ a.req.route = "campaigns"
          /\ LET s == [head |-> a.req.head, tail |-> a.tail]
                 q == a.req
             IN  IF ~AtoiOk(s.head)
                 THEN Set(r, CampaignMwFailed(q))
                 ELSE LET id == Atoi(s.head) IN
                      \/ /\ DBHasCampaign(id)
                         /\ Set(r, CampaignMwNext(
                                       Called(q, Call("GetCampaign", id, "", "", NoError)),
                                       DBGetCampaign(id), s.tail))
                      \/ Set(r, CampaignMwFailed(
                                    Called(q, Call("GetCampaign", id, "", "",
                                                   DBGetCampaignError(id)))))
    /\ UNCHANGED <<orders, customers, charges>>

----------------------------------------------------------------------------
(* OrderHandler.New *)

\* a slip: the form shows the price in minor units
NewDataMinorUnits(campaign) ==
    [Campaign |-> [ID |-> campaign.ID, Price |-> campaign.Price],
     StripePublicKey |-> StripePublicKey]

\* the data of the order form
NewData(campaign) ==
    [Campaign |-> [ID |-> campaign.ID, Price |-> campaign.Price \div 100],
     StripePublicKey |-> StripePublicKey]

\* a slip: the form is rendered for no campaign
NewNoCampaignRendered(q) == Execute(q, "New", NewData(NoCampaign))

\* New finds no campaign in the context of the request
NewNoCampaign(q) == HttpError(q, "Campaign not provided", 500)

\* New is handed a request by a caller other than the route tree, with nothing
\* in its context
NewWithoutMw(r) ==
    /\ Free(r)
    /\ Set(r, [IdleRequest EXCEPT !.route = "direct", !.method = "GET",
                                  !.path = "/", !.pc = "New", !.leaf = "New"])
    /\ UNCHANGED <<orders, customers, charges>>

New(r) ==
    LET q == reqs[r] IN
    /\ q.pc = "New"
    /\ IF "campaign" \notin q.ctx
       THEN Set(r, NewNoCampaign(q))
       ELSE Set(r, Execute(q, "New", NewData(q.campaign)))
    /\ UNCHANGED <<orders, customers, charges>>

----------------------------------------------------------------------------
(* OrderHandler.Create *)

\* a slip: the price is stored as the campaign ID
OrderCampaignIDOfPrice(campaign) == campaign.Price

\* order.CampaignID = campaign.ID
OrderCampaignID(campaign) == campaign.ID

\* a slip: the customer ID is stored as the charge ID too
NewOrderCharged(campaign, form, cusID) ==
    [ID |-> 0, CampaignID |-> OrderCampaignID(campaign),
     Customer |-> [Name |-> form.Name, Email |-> form.Email],
     Address |-> [Street1 |-> form.Street1, Street2 |-> form.Street2,
                  City |-> form.City, State |-> form.State, Zip |-> form.Zip,
                  Country |-> form.Country, Raw |-> RawAddress(form)],
     Payment |-> [Source |-> "stripe", CustomerID |-> cusID, ChargeID |-> cusID]]

\* the order Create builds from the campaign in context, the form and the
\* customer the processor returned
NewOrder(campaign, form, cusID) ==
    [ID |-> 0, CampaignID |-> OrderCampaignID(campaign),
     Customer |-> [Name |-> form.Name, Email |-> form.Email],
     Address |-> [Street1 |-> form.Street1, Street2 |-> form.Street2,
                  City |-> form.City, State |-> form.State, Zip |-> form.Zip,
                  Country |-> form.Country, Raw |-> RawAddress(form)],
     Payment |-> [Source |-> "stripe", CustomerID |-> cusID, ChargeID |-> ""]]

\* a slip: the check of the decoded email is missing
EmailParsedUnchecked(form) == TRUE

\* the decoded form carries an email
EmailParsed(form) == form.Email # ""

\* panic("email wasn't parsed!"): the request is aborted with no response
Panic(q) == [q EXCEPT !.pc = "done", !.body = "panic"]

\* a slip: the generic message is sent
CustomerFailedGeneric(q, err) ==
    HttpError(
        Logged(q, "Error creating stripe customer. email = " \o q.form.Email
                      \o ", err = " \o err.Message),
        MsgGeneric, 500)

\* the processor failed to create the customer
CustomerFailed(q, err) ==
    HttpError(
        Logged(q, "Error creating stripe customer. email = " \o q.form.Email
                      \o ", err = " \o err.Message),
        MsgPayment, 500)

\* a slip: the URL carries the internal order ID
OrderURLInternalID(order) == "/orders/" \o ToString(order.ID)

\* the order URL Create and Confirm redirect to
OrderURL(order) == "/orders/" \o order.Payment.CustomerID

\* a slip: the failure is reported as a server error
CreateOrderFailedServerError(q) == HttpError(q, MsgGeneric, 500)

\* storage failed to insert the order
CreateOrderFailed(q) == HttpError(q, MsgGeneric, 400)

\* a slip: the source tag is stored as the payment customer ID
PaymentCustomerIDOfSource(cusID) == "stripe"

\* order.Payment.CustomerID = cus.ID
PaymentCustomerID(cusID) == cusID

\* Create up to and including the call of Stripe.Client.Customer, while the
\* processor holds fewer than max customers; the posted form is decoded first
CreateCustomerUpTo(r, max) ==
    \E form \in Forms :
    LET q == [reqs[r] EXCEPT !.form = form] IN
    /\ q.pc = "Create"
    /\ IF ~EmailParsed(q.form)
       THEN /\ Set(r, Panic(q))
            /\ UNCHANGED customers
       ELSE \/ /\ Len(customers) < max
               /\ customers' = StripeCustomer(q.form.StripeToken, q.form.Email)
               /\ Set(r, [Called(q, Call("Customer", 0, q.form.StripeToken,
                                         q.form.Email, NoError))
                             EXCEPT !.pc = "Create_CreateOrder",
                                    !.order = NewOrder(q.campaign, q.form,
                                                  PaymentCustomerID(
                                                      StripeNextCustomerID))])
            \/ \E err \in StripeErrors :
               /\ Set(r, CustomerFailed(
                             Called(q, Call("Customer", 0, q.form.StripeToken,
                                            q.form.Email, err)), err))
               /\ UNCHANGED customers
    /\ UNCHANGED <<orders, charges>>

CreateCustomer(r) == CreateCustomerUpTo(r, MaxCustomers)

\* Create from the call of DB.CreateOrder to the response, while storage holds
\* fewer than max orders
CreateCreateOrderUpTo(r, max) ==
    LET q == reqs[r]
        c == Call("CreateOrder", q.order.CampaignID, q.order.Payment.CustomerID,
                  q.order.Payment.ChargeID, NoError)
    IN
    /\ q.pc = "Create_CreateOrder"
    /\ \/ /\ Len(orders) < max
          /\ orders' = DBCreateOrder(q.order)
          /\ LET q1 == [Called(q, c) EXCEPT !.order.ID = DBNextOrderID]
             IN  Set(r, Redirect(q1, OrderURL(q1.order)))
       \/ /\ Set(r, CreateOrderFailed(Called(q, [c EXCEPT !.err = ErrConnDone])))
          /\ UNCHANGED orders
    /\ UNCHANGED <<customers, charges>>

CreateCreateOrder(r) == CreateCreateOrderUpTo(r, MaxOrders)

----------------------------------------------------------------------------
(* OrderHandler.OrderMw *)

\* a slip: a failed lookup of an existing order is a server error
OrderMwFailedServerError(q, err) ==
    IF err = ErrNoRows THEN NotFound(q) ELSE HttpError(q, MsgGeneric, 500)

\* the order was not resolved
OrderMwFailed(q, err) == NotFound(q)

\* a slip: the inner handler is invoked with the context the request came with
OrderMwNextNoContext(q, order, path) ==
    Serve([q EXCEPT !.order = order, !.path = path], OrdersLeaf(q.method, path))

\* the order was resolved: it is put in the context, the path becomes the tail
\* and the inner handler is invoked
OrderMwNext(q, order, path) ==
    Serve([q EXCEPT !.ctx = @ \cup {"order"}, !.order = order, !.path = path],
          OrdersLeaf(q.method, path))

\* A request under /orders/, one of arrivals, arrives on a free slot and runs
\* through the middleware into the handler its path selects.
OrderMwOf(r, arrivals) ==
    /\ Free(r)
    /\ \E a \in arrivals :
          /\ a.req.route = "orders"
          /\ LET s == [head |-> a.req.head, tail |-> a.tail]
                 q == a.req
             IN  \/ /\ DBOrdersViaPayCus(s.head) # {}
                    /\ Set(r, OrderMwNext(
                                  Called(q, Call("GetOrderViaPayCus", 0, s.head, "", NoError)),
                                  DBGetOrderViaPayCus(s.head), s.tail))
                 \/ Set(r, OrderMwFailed(
                               Called(q, Call("GetOrderViaPayCus", 0, s.head, "",
                                              DBGetOrderViaPayCusError(s.head))),
                               DBGetOrderViaPayCusError(s.head)))
    /\ UNCHANGED <<orders, customers, charges>>

OrderMw(r) == OrderMwOf(r, Arrivals)

----------------------------------------------------------------------------
(* OrderHandler.Show *)

\* a slip: the failure is logged and the handler carries on
CampaignFailedIgnored(q) ==
    [Logged(q, LogCampaign)
        EXCEPT !.pc = IF q.leaf = "Confirm" THEN "Confirm_Charge" ELSE "Show_GetCharge"]

\* the lookup of the order's campaign failed (Show and Confirm)
CampaignFailed(q) == HttpError(Logged(q, LogCampaign), MsgGeneric, 500)

\* a slip: the review view shows the internal ID of the order
ReviewDataInternalID(order, campaign) ==
    [ID |-> ToString(order.ID), Address |-> order.Address.Raw,
     Price |-> campaign.Price \div 100]

\* the data of the review view
ReviewData(order, campaign) ==
    [ID |-> order.Payment.CustomerID, Address |-> order.Address.Raw,
     Price |-> campaign.Price \div 100]

\* a slip: a pending charge is reported as a completed order
StatusMessagePendingCompleted(status) ==
    CASE status = "succeeded" -> MsgSucceeded
      [] status = "pending" -> MsgSucceeded
      [] status = "failed" -> MsgFailed
      [] OTHER -> ""

\* the fixed message of a charge status; nothing is written for any other status
StatusMessage(status) ==
    CASE status = "succeeded" -> MsgSucceeded
      [] status = "pending" -> MsgPending
      [] status = "failed" -> MsgFailed
      [] OTHER -> ""

\* a slip: the order under review is charged
ReviewedCharging(q, campaign) == [q EXCEPT !.pc = "Confirm_Charge"]

\* the order is not charged yet: the review view is rendered
Reviewed(q, campaign) == Execute(q, "Review", ReviewData(q.order, campaign))

\* Show up to and including the call of DB.GetCampaign, and the review view
ShowGetCampaign(r) ==
    LET q == reqs[r]
        c == Call("GetCampaign", q.order.CampaignID, "", "", NoError)
    IN
    /\ q.pc = "Show"
    /\ \/ /\ DBHasCampaign(q.order.CampaignID)
          /\ LET campaign == DBGetCampaign(q.order.CampaignID)
                 q1 == [Called(q, c) EXCEPT !.campaign = campaign]
             IN  IF q.order.Payment.ChargeID # ""
                 THEN Set(r, [q1 EXCEPT !.pc = "Show_GetCharge"])
                 ELSE Set(r, Reviewed(q1, campaign))
       \/ Set(r, CampaignFailed(
                     Called(q, [c EXCEPT !.err = DBGetCampaignError(q.order.CampaignID)])))
    /\ UNCHANGED <<orders, customers, charges>>

\* a slip: the failure is answered with a server error
LookupFailedServerError(q) == HttpError(q, MsgLookup, 500)

\* the lookup failure is reported in the body of an ordinary response
LookupFailed(q) == Fprint(q, MsgLookup)

\* a slip: the lookup is tried again
GetChargeFailedRetried(q, err) ==
    [Logged(q, "error looking up a customer's charge where chg.ID = "
                   \o q.order.Payment.ChargeID \o "; err = " \o err.Message)
        EXCEPT !.pc = "Show_GetCharge"]

\* the status lookup of a charged order failed
GetChargeFailed(q, err) ==
    LookupFailed(Logged(q, "error looking up a customer's charge where chg.ID = "
                               \o q.order.Payment.ChargeID \o "; err = " \o err.Message))

\* Show of a charged order, from the call of Stripe.Client.GetCharge
ShowGetCharge(r) ==
    LET q == reqs[r]
        c == Call("GetCharge", 0, q.order.Payment.ChargeID, "", NoError)
    IN
    /\ q.pc = "Show_GetCharge"
    /\ \/ /\ StripeHasCharge(q.order.Payment.ChargeID)
          /\ \E status \in ChargeStatuses :
                Set(r, Fprint([Called(q, c) EXCEPT !.chargeStatus = status],
                              StatusMessage(status)))
       \/ \E err \in StripeErrors :
             Set(r, GetChargeFailed(Called(q, [c EXCEPT !.err = err]), err))
    /\ UNCHANGED <<orders, customers, charges>>

----------------------------------------------------------------------------
(* OrderHandler.Confirm *)

\* a slip: the charge is made for the displayed price, in major units
ChargeAmountMajorUnits(campaign) == campaign.Price \div 100

\* the amount Confirm charges
ChargeAmount(campaign) == campaign.Price

\* a slip: every charge error is answered with the generic server error
ChargeFailedUnclassified(q, err) == HttpError(q, MsgCard, 500)

\* the processor failed to create the charge
ChargeFailed(q, err) ==
    IF err.stripe THEN Fprint(q, err.Message) ELSE HttpError(q, MsgCard, 500)

\* a slip: the error of ConfirmOrder is dropped and the client is redirected
ConfirmOrderFailedIgnored(q) == Redirect(q, "/orders/" \o q.order.Payment.CustomerID)

\* a slip: the client is redirected without the charge being saved
ChargedNotSaved(q, chargeID) ==
    Redirect([q EXCEPT !.order.Payment.ChargeID = chargeID],
             "/orders/" \o q.order.Payment.CustomerID)

\* the charge succeeded: its ID is set on the order in memory, to be saved next
Charged(q, chargeID) ==
    [q EXCEPT !.pc = "Confirm_ConfirmOrder", !.order.Payment.ChargeID = chargeID]

\* storage failed to save the charge
ConfirmOrderFailed(q) == HttpError(q, MsgCharged, 500)

\* Confirm up to and including the call of DB.GetCampaign; the submitted
\* address-raw is then read from the posted form and overwrites the raw address
\* of the order in memory
ConfirmGetCampaign(r) ==
    LET q == reqs[r]
        c == Call("GetCampaign", q.order.CampaignID, "", "", NoError)
    IN
    /\ q.pc = "Confirm"
    /\ \/ /\ DBHasCampaign(q.order.CampaignID)
          /\ \E raw \in PostedAddressRaws(q.method) :
                Set(r, [Called(q, c) EXCEPT !.pc = "Confirm_Charge",
                                           !.campaign = DBGetCampaign(q.order.CampaignID),
                                           !.addressRaw = raw,
                                           !.order.Address.Raw = raw])
       \/ Set(r, CampaignFailed(
                     Called(q, [c EXCEPT !.err = DBGetCampaignError(q.order.CampaignID)])))
    /\ UNCHANGED <<orders, customers, charges>>

\* Confirm from the call of Stripe.Client.Charge
ConfirmCharge(r) ==
    LET q == reqs[r]
        c == Call("Charge", ChargeAmount(q.campaign), q.order.Payment.CustomerID, "", NoError)
    IN
    /\ q.pc = "Confirm_Charge"
    /\ \/ /\ Len(charges) < MaxCharges
          /\ charges' = StripeCharge(q.order.Payment.CustomerID, ChargeAmount(q.campaign))
          /\ Set(r, Charged(Called(q, c), StripeNextChargeID))
       \/ \E err \in StripeErrors :
          /\ Set(r, ChargeFailed(Called(q, [c EXCEPT !.err = err]), err))
          /\ UNCHANGED charges
    /\ UNCHANGED <<orders, customers>>

\* a variant: a charge ID that storage already holds for the order is kept
ConfirmOrderChargeIDKept(q) ==
    LET stored == {orders[i].Payment.ChargeID :
                      i \in {j \in DOMAIN orders : orders[j].ID = q.order.ID}}
                      \ {""}
    IN  IF stored = {} THEN q.order.Payment.ChargeID ELSE CHOOSE id \in stored : TRUE

\* the charge ID Confirm passes to ConfirmOrder: that of the charge it made
ConfirmOrderChargeID(q) == q.order.Payment.ChargeID

\* a slip: the order is named by the ID of its campaign
ConfirmOrderIDOfCampaign(q) == q.order.CampaignID

\* the order ID Confirm passes to ConfirmOrder
ConfirmOrderID(q) == q.order.ID

\* a slip: the raw address storage holds is saved again, the edit is dropped
ConfirmOrderAddressRawStored(q) ==
    LET stored == {orders[i].Address.Raw :
                      i \in {j \in DOMAIN orders : orders[j].ID = q.order.ID}}
    IN  IF stored = {} THEN q.order.Address.Raw ELSE CHOOSE raw \in stored : TRUE

\* the raw address Confirm passes to ConfirmOrder: the submitted one
ConfirmOrderAddressRaw(q) == q.order.Address.Raw

\* Confirm from the call of DB.ConfirmOrder to the response
ConfirmConfirmOrder(r) ==
    LET q == reqs[r]
        c == Call("ConfirmOrder", ConfirmOrderID(q), ConfirmOrderAddressRaw(q),
                  ConfirmOrderChargeID(q), NoError)
    IN
    /\ q.pc = "Confirm_ConfirmOrder"
    /\ \/ /\ orders' = DBConfirmOrder(ConfirmOrderID(q), ConfirmOrderAddressRaw(q),
                                      ConfirmOrderChargeID(q))
          /\ Set(r, Redirect(Called(q, c), OrderURL(q.order)))
       \/ /\ Set(r, ConfirmOrderFailed(Called(q, [c EXCEPT !.err = ErrConnDone])))
          /\ UNCHANGED orders
    /\ UNCHANGED <<customers, charges>>

----------------------------------------------------------------------------
(* Specification *)

Next ==
    \E r \in Requests :
        \/ ShowActive(r)
        \/ CampaignMw(r)
        \/ NewWithoutMw(r)
        \/ New(r)
        \/ CreateCustomer(r)
        \/ CreateCreateOrder(r)
        \/ OrderMw(r)
        \/ ShowGetCampaign(r)
        \/ ShowGetCharge(r)
        \/ ConfirmGetCampaign(r)
        \/ ConfirmCharge(r)
        \/ ConfirmConfirmOrder(r)

Spec == Init /\ [][Next]_vars

\* The requests under /orders/ on their own, from the state two Create
\* requests leave behind: order 1 of campaign 2 for cus_1 and order 2 of
\* campaign 1 for cus_2, neither charged yet.
InitOrders ==
    /\ reqs = [r \in Requests |-> IdleRequest]
    /\ returned = IdleRequest
    /\ \E form \in {f \in Forms : EmailParsed(f)} :
          /\ customers =
                <<[ID |-> "cus_1", Token |-> form.StripeToken, Email |-> form.Email],
                  [ID |-> "cus_2", Token |-> form.StripeToken, Email |-> form.Email]>>
          /\ orders =
                <<[NewOrder(Campaigns[2], form, "cus_1") EXCEPT !.ID = 1],
                  [NewOrder(Campaigns[1], form, "cus_2") EXCEPT !.ID = 2]>>
    /\ charges = <<>>

NextOrders ==
    \E r \in Requests :
        \/ OrderMwOf(r, OrderArrivals)
        \/ ShowGetCampaign(r)
        \/ ShowGetCharge(r)
        \/ ConfirmGetCampaign(r)
        \/ ConfirmCharge(r)
        \/ ConfirmConfirmOrder(r)

SpecOrders == InitOrders /\ [][NextOrders]_vars

\* Package urlpath on its own: a request arrives with any path of up to
\* MaxElements elements, each empty, ".", ".." or a name, rooted or not; the
\* path is cleaned, as the "/" handler of main does, up to twice, and split, as
\* a middleware does, before or after cleaning.
PathElements == {"", ".", "..", "a", "b"}

RECURSIVE PathsOf(_)
PathsOf(n) ==
    IF n = 0 THEN {""}
    ELSE PathsOf(n - 1)
            \cup {e : e \in PathElements}
            \cup {p \o "/" \o e : p \in PathsOf(n - 1), e \in PathElements}

Paths == PathsOf(MaxElements)

InitPath ==
    /\ \E r \in Requests, p \in Paths :
          reqs = [x \in Requests |->
                     IF x = r
                     THEN [IdleRequest EXCEPT !.pc = "received", !.requestURI = p,
                                              !.path = p]
                     ELSE IdleRequest]
    /\ returned = IdleRequest
    /\ orders = <<>>
    /\ customers = <<>>
    /\ charges = <<>>

\* r.URL.Path = urlpath.Clean(r.URL.Path)
CleanPath(r) ==
    /\ reqs[r].pc \in {"received", "cleaned"}
    /\ reqs' = [reqs EXCEPT ![r].path = Clean(@),
                            ![r].pc = IF @ = "received" THEN "cleaned"
                                      ELSE "recleaned"]
    /\ UNCHANGED <<returned, orders, customers, charges>>

\* head, path := urlpath.Split(r.URL.Path); r.URL.Path = path
SplitPath(r) ==
    /\ reqs[r].pc \in {"received", "cleaned"}
    /\ reqs' = [reqs EXCEPT ![r].head = Split(reqs[r].path).head,
                            ![r].path = Split(@).tail,
                            ![r].pc = "split"]
    /\ UNCHANGED <<returned, orders, customers, charges>>

NextPath == \E r \in Requests : CleanPath(r) \/ SplitPath(r)

SpecPath == InitPath /\ [][NextPath]_vars

\* The order Create builds, on its own: a form of any of the fields below has
\* been decoded for a request with a campaign in its context, and the order
\* is built from it for the customer the processor would return next.
AddressForms ==
    [Name : {"", "Jane Doe", "J\n\nDoe"}, Email : {"jane@test.com"},
     Street1 : {"", "1 Main St"}, Street2 : {"", "Apt 2"},
     City : {"", "Bedford"}, State : {"", "PA"}, Zip : {"", "15522"},
     Country : {"", "United States"}, StripeToken : {"secret-stripe-token"}]

InitAddress ==
    /\ \E r \in Requests, form \in AddressForms :
          reqs = [x \in Requests |->
                     IF x = r
                     THEN [IdleRequest EXCEPT !.pc = "Create_Order",
                                              !.leaf = "Create",
                                              !.form = form,
                                              !.campaign = Campaigns[1]]
                     ELSE IdleRequest]
    /\ returned = IdleRequest
    /\ orders = <<>>
    /\ customers = <<>>
    /\ charges = <<>>

\* var order db.Order ... order.Payment.CustomerID = cus.ID
BuildOrder(r) ==
    /\ reqs[r].pc = "Create_Order"
    /\ reqs' = [reqs EXCEPT
                    ![r].order = NewOrder(reqs[r].campaign, reqs[r].form,
                                          PaymentCustomerID(StripeNextCustomerID)),
                    ![r].pc = "Create_CreateOrder"]
    /\ UNCHANGED <<returned, orders, customers, charges>>

NextAddress == \E r \in Requests : BuildOrder(r)

SpecAddress == InitAddress /\ [][NextAddress]_vars

\* The requests under /campaigns/ alone, from the empty tables, with room for
\* MaxCreated orders.
NextCreate ==
    \E r \in Requests :
        \/ CampaignMw(r)
        \/ New(r)
        \/ CreateCustomerUpTo(r, MaxCreated)
        \/ CreateCreateOrderUpTo(r, MaxCreated)

SpecCreate == Init /\ [][NextCreate]_vars

\* The requests outside /campaigns/ and /orders/ alone, with the clock at any
\* instant of Nows.
NextActive == \E r \in Requests : ShowActiveOf(r, RootArrivals, Nows)

SpecActive == Init /\ [][NextActive]_vars

----------------------------------------------------------------------------
(* What the claims speak about *)

\* the stored order with the given internal ID
StoredOrder(id) == orders[CHOOSE i \in DOMAIN orders : orders[i].ID = id]

\* the charges the processor holds against a payment customer ID
ChargesOf(customerID) == {i \in DOMAIN charges : charges[i].CustomerID = customerID}

\* q is an invocation of the leaf handler that has returned
Returned(q, leaf) ==
    /\ q.pc = "done"
    /\ q.leaf = leaf
    /\ Len(q.calls) >= 1
    /\ Ok(q.calls[1])

\* the last call q made is a call of op
LastCall(q, op) == Len(q.calls) >= 1 /\ q.calls[Len(q.calls)].op = op

\* q returned from Confirm after the campaign lookup, the charge and the
\* persistence all succeeded
ConfirmSucceeded(q) ==
    /\ Returned(q, "Confirm")
    /\ LastCall(q, "ConfirmOrder")
    /\ Ok(q.calls[Len(q.calls)])

\* q returned from Confirm after the charge succeeded and ConfirmOrder failed
ConfirmSaveFailed(q) ==
    /\ Returned(q, "Confirm")
    /\ LastCall(q, "ConfirmOrder")
    /\ ~Ok(q.calls[Len(q.calls)])

\* q returned from Confirm after the charge call failed
ConfirmChargeFailed(q) ==
    /\ Returned(q, "Confirm")
    /\ LastCall(q, "Charge")
    /\ ~Ok(q.calls[Len(q.calls)])

\* q returned from Create after the tokenization and CreateOrder succeeded
CreateSucceeded(q) ==
    /\ Returned(q, "Create")
    /\ LastCall(q, "CreateOrder")
    /\ Ok(q.calls[Len(q.calls)])

\* q returned from Create after the processor failed to create the customer
CreateCustomerFailed(q) ==
    /\ Returned(q, "Create")
    /\ LastCall(q, "Customer")
    /\ ~Ok(q.calls[Len(q.calls)])

\* q returned from Create after the tokenization succeeded and CreateOrder failed
CreateSaveFailed(q) ==
    /\ Returned(q, "Create")
    /\ LastCall(q, "CreateOrder")
    /\ ~Ok(q.calls[Len(q.calls)])

----------------------------------------------------------------------------
(* C1 *)

\* C1: when Confirm succeeds throughout, the charge was requested for the
\* order's payment customer ID and the campaign's price in minor units,
\* ConfirmOrder was called with the order's internal ID, the submitted
\* address-raw and the charge ID the processor returned, and the response is a
\* redirect to /orders/{the order's payment customer ID}.
C1_ConfirmSuccess ==
    ConfirmSucceeded(returned) =>
        LET q == returned
            o == DBGetOrderViaPayCus(q.head)
        IN  /\ Len(q.calls) = 4
            /\ q.calls[2] = Call("GetCampaign", o.CampaignID, "", "", NoError)
            /\ q.calls[3] = Call("Charge", Campaigns[o.CampaignID].Price,
                                 o.Payment.CustomerID, "", NoError)
            /\ q.calls[4].n = o.ID
            /\ q.calls[4].a = q.addressRaw
            /\ \E k \in ChargesOf(o.Payment.CustomerID) :
                  /\ charges[k].ID = q.calls[4].b
                  /\ charges[k].Amount = Campaigns[o.CampaignID].Price
            /\ q.status = 302
            /\ q.location = "/orders/" \o o.Payment.CustomerID

\* a Confirm that submitted an address differing from the one Create derived
\* has succeeded for an order of the campaign priced 1200
C1_Witness ==
    /\ ConfirmSucceeded(returned)
    /\ returned.addressRaw = "NEW ADDRESS HERE"
    /\ returned.calls[3].n = 1200
    /\ returned.location = "/orders/cus_1"

----------------------------------------------------------------------------
(* C2 *)

\* C2: an order is charged exactly once: once the stored order carries a charge
\* ID, no step replaces that charge ID and no step creates another charge
\* against the order's payment customer ID.
C2_ChargedExactlyOnce ==
    [][\A i \in DOMAIN orders :
          orders[i].Payment.ChargeID # "" =>
              LET cus == orders[i].Payment.CustomerID IN
              /\ orders'[i].Payment.ChargeID = orders[i].Payment.ChargeID
              /\ {k \in DOMAIN charges' : charges'[k].CustomerID = cus} = ChargesOf(cus)
      ]_vars

----------------------------------------------------------------------------
(* C3 *)

\* the number of calls of op that q made
NumCalls(q, op) == Cardinality({j \in DOMAIN q.calls : q.calls[j].op = op})

\* C3: the step in which Confirm returns after a successful charge and a
\* failed ConfirmOrder answers 500 with the charged-but-not-saved message and no
\* redirect, has called Charge once, removes no charge, and leaves the stored
\* orders as they were: the charge is at the processor while the stored order
\* keeps its charge ID and raw address and does not carry the new charge ID.
C3_ConfirmSaveFailure ==
    [][ConfirmSaveFailed(returned') =>
          LET q == returned'
              chargeID == q.order.Payment.ChargeID
          IN  /\ q.status = 500
              /\ q.body = MsgCharged
              /\ q.location = ""
              /\ NumCalls(q, "Charge") = 1
              /\ NumCalls(q, "ConfirmOrder") = 1
              /\ orders' = orders
              /\ charges' = charges
              /\ \E k \in ChargesOf(q.order.Payment.CustomerID) :
                    charges[k].ID = chargeID
              /\ StoredOrder(q.order.ID).Payment.ChargeID # chargeID
      ]_vars

\* such a Confirm has returned: the processor holds the charge, the stored order
\* has no charge ID and still has the address Create derived, not the submitted one
C3_Witness ==
    /\ ConfirmSaveFailed(returned)
    /\ returned.addressRaw = "NEW ADDRESS HERE"
    /\ ChargesOf(returned.order.Payment.CustomerID) # {}
    /\ StoredOrder(returned.order.ID).Payment.ChargeID = ""
    /\ StoredOrder(returned.order.ID).Address.Raw # "NEW ADDRESS HERE"

----------------------------------------------------------------------------
(* C4 *)

\* a Confirm in flight holds a charge for the order that it has yet to save
SavePending(o) ==
    \E r \in Requests :
        /\ reqs[r].pc = "Confirm_ConfirmOrder"
        /\ reqs[r].order.ID = o.ID

\* C4: what storage records tells a charged order from an uncharged one: a
\* stored order that has been charged at the processor, with no save of that
\* charge still to come, carries a charge ID, unlike a stored order that was
\* never charged, which is what Show and Confirm would have to read.
C4_Distinguishable ==
    \A i \in DOMAIN orders :
        (ChargesOf(orders[i].Payment.CustomerID) # {} /\ ~SavePending(orders[i]))
            => orders[i].Payment.ChargeID # ""

----------------------------------------------------------------------------
(* C5 *)

\* the invocations in flight and the one that has just returned
Invocations == {reqs[r] : r \in Requests} \cup {returned}

\* C5: every CreateOrder call carries an empty charge ID, the order a Create
\* has just inserted has an empty charge ID, and a non-empty stored charge ID
\* is the ID of a charge the processor holds against that order's payment
\* customer ID.
C5_ChargeIDOnlyAfterCharge ==
    /\ \A q \in Invocations : \A j \in DOMAIN q.calls :
          q.calls[j].op = "CreateOrder" => q.calls[j].b = ""
    /\ CreateSucceeded(returned) => orders[Len(orders)].Payment.ChargeID = ""
    /\ \A i \in DOMAIN orders :
          orders[i].Payment.ChargeID # "" =>
              \E k \in ChargesOf(orders[i].Payment.CustomerID) :
                  charges[k].ID = orders[i].Payment.ChargeID

\* an order created with no charge ID now stores the ID of the second charge
\* made against its customer
C5_Witness ==
    /\ Len(orders) = 1
    /\ orders[1].Payment.ChargeID = "chg_2"
    /\ Cardinality(ChargesOf(orders[1].Payment.CustomerID)) = 2

----------------------------------------------------------------------------
(* C6 *)

\* in q, every call of the persistence operation comes right after a successful
\* call of the payment operation
After(q, persist, pay) ==
    \A j \in DOMAIN q.calls :
        q.calls[j].op = persist =>
            /\ j > 1
            /\ q.calls[j - 1].op = pay
            /\ Ok(q.calls[j - 1])

\* q has returned, and every successful call of the payment operation was
\* followed by a call of the persistence operation
Followed(q, pay, persist) ==
    \A j \in DOMAIN q.calls :
        (q.calls[j].op = pay /\ Ok(q.calls[j])) =>
            /\ j < Len(q.calls)
            /\ q.calls[j + 1].op = persist

\* C6: within one invocation CreateOrder is called only right after Customer
\* has succeeded and ConfirmOrder only right after Charge has succeeded, each
\* at most once; and an invocation that has returned made the persistence call
\* after every successful payment call.
C6_PaymentBeforePersistence ==
    \A q \in Invocations :
        /\ After(q, "CreateOrder", "Customer")
        /\ After(q, "ConfirmOrder", "Charge")
        /\ \A op \in {"Customer", "CreateOrder", "Charge", "ConfirmOrder"} :
              NumCalls(q, op) <= 1
        /\ q.pc = "done" =>
              /\ Followed(q, "Customer", "CreateOrder")
              /\ Followed(q, "Charge", "ConfirmOrder")

\* a Confirm has returned after Charge and then ConfirmOrder, for an order that
\* a Create persisted after Customer
C6_Witness ==
    /\ returned.pc = "done"
    /\ Len(returned.calls) = 4
    /\ returned.calls[3].op = "Charge"
    /\ returned.calls[4].op = "ConfirmOrder"
    /\ Len(customers) = 1
    /\ Len(orders) = 1

----------------------------------------------------------------------------
(* C7 *)

\* C7: the step in which Confirm returns after a failed charge answers 200
\* with the processor's message when the error is a stripe.Error and 500 with
\* the card-processing message otherwise; in both cases without a redirect,
\* without a call of ConfirmOrder and with the stored orders and the charges
\* left as they were.
C7_ConfirmChargeFailure ==
    [][ConfirmChargeFailed(returned') =>
          LET q == returned'
              err == q.calls[Len(q.calls)].err
          IN  /\ err.stripe => (q.status = 200 /\ q.body = err.Message)
              /\ ~err.stripe => (q.status = 500 /\ q.body = MsgCard)
              /\ q.location = ""
              /\ NumCalls(q, "ConfirmOrder") = 0
              /\ orders' = orders
              /\ charges' = charges
      ]_vars

\* a Confirm that submitted a new address was refused by the processor: the
\* stored order keeps its address and has no charge ID
C7_Witness ==
    /\ ConfirmChargeFailed(returned)
    /\ returned.calls[Len(returned.calls)].err.stripe
    /\ returned.body = "Failed to charge your card!"
    /\ returned.order.Address.Raw = "NEW ADDRESS HERE"
    /\ StoredOrder(returned.order.ID).Address.Raw # "NEW ADDRESS HERE"
    /\ StoredOrder(returned.order.ID).Payment.ChargeID = ""

----------------------------------------------------------------------------
(* C8 *)

\* C8: when Create succeeds throughout, Customer was called with the submitted
\* stripe-token and email, the order just persisted has the campaign ID of the
\* campaign in context, the source "stripe", the customer ID the processor
\* returned for that token and email and no charge ID, and the response is a
\* redirect to /orders/{that customer ID}.
C8_CreateSuccess ==
    CreateSucceeded(returned) =>
        LET q == returned
            o == orders[Len(orders)]
        IN  /\ Len(q.calls) = 3
            /\ q.calls[2] = Call("Customer", 0, q.form.StripeToken, q.form.Email, NoError)
            /\ q.form.Email # ""
            /\ \E k \in DOMAIN customers :
                  /\ customers[k].ID = o.Payment.CustomerID
                  /\ customers[k].Token = q.form.StripeToken
                  /\ customers[k].Email = q.form.Email
            /\ q.calls[1] = Call("GetCampaign", o.CampaignID, "", "", NoError)
            /\ o.CampaignID = q.campaign.ID
            /\ o.Payment.Source = "stripe"
            /\ o.Payment.ChargeID = ""
            /\ q.status = 302
            /\ q.location = "/orders/" \o o.Payment.CustomerID

\* a Create under /campaigns/2/ has persisted order 1 for customer cus_1
C8_Witness ==
    /\ CreateSucceeded(returned)
    /\ returned.head = "2"
    /\ returned.location = "/orders/cus_1"
    /\ orders[Len(orders)].ID = 1
    /\ orders[Len(orders)].CampaignID = 2

----------------------------------------------------------------------------
(* C9 *)

\* C9: the step in which Create returns after the processor failed to create
\* the customer has logged the email and the error, answers 500 with the
\* payment message, which is not the generic one, without a redirect and
\* without a call of CreateOrder, and leaves the stored orders and the
\* processor's customers as they were.
C9_CreateCustomerFailure ==
    [][CreateCustomerFailed(returned') =>
          LET q == returned'
              err == q.calls[Len(q.calls)].err
          IN  /\ q.logs = << "Error creating stripe customer. email = "
                               \o q.form.Email \o ", err = " \o err.Message >>
              /\ q.status = 500
              /\ q.body = MsgPayment
              /\ q.body # MsgGeneric
              /\ q.location = ""
              /\ NumCalls(q, "CreateOrder") = 0
              /\ orders' = orders
              /\ customers' = customers
      ]_vars

\* a Create with an email was refused by the processor while storage is empty
C9_Witness ==
    /\ CreateCustomerFailed(returned)
    /\ returned.form.Email = "chris@test.com"
    /\ Len(returned.logs) = 1
    /\ orders = <<>>

----------------------------------------------------------------------------
(* C10 *)

\* C10: the step in which Create returns after a successful tokenization and a
\* failed CreateOrder answers 400 with the generic message and no redirect and
\* leaves the stored orders as they were, none of them with the customer ID
\* just obtained, while the processor holds that customer.
C10_CreateSaveFailure ==
    [][CreateSaveFailed(returned') =>
          LET q == returned'
              cus == q.order.Payment.CustomerID
          IN  /\ q.status = 400
              /\ q.body = MsgGeneric
              /\ q.location = ""
              /\ orders' = orders
              /\ DBOrdersViaPayCus(cus) = {}
              /\ \E k \in DOMAIN customers : customers[k].ID = cus
      ]_vars

\* a Create has failed to save its order: the processor holds a customer and
\* storage holds no order
C10_Witness ==
    /\ CreateSaveFailed(returned)
    /\ Len(customers) = 1
    /\ customers[1].ID = returned.order.Payment.CustomerID
    /\ orders = <<>>

----------------------------------------------------------------------------
(* C11 *)

\* C11: the step in which a Create whose decoded email is empty returns is an
\* abort with no response written; the invocation has called neither the
\* payment collaborator nor storage after the middleware's campaign lookup, and
\* the step creates no customer and persists no order.
C11_CreateFailsFast ==
    [][(Returned(returned', "Create") /\ returned'.form.Email = "") =>
           /\ returned'.body = "panic"
           /\ returned'.status = 0
           /\ returned'.location = ""
           /\ Len(returned'.calls) = 1
           /\ returned'.calls[1].op = "GetCampaign"
           /\ customers' = customers
           /\ orders' = orders
           /\ charges' = charges]_vars

\* a Create with an empty email was aborted while the processor holds no
\* customer and storage no order
C11_Witness ==
    /\ Returned(returned, "Create")
    /\ returned.form.Email = ""
    /\ returned.form.StripeToken # ""
    /\ returned.body = "panic"
    /\ customers = <<>>
    /\ orders = <<>>

----------------------------------------------------------------------------
(* C12 *)

\* the operations of the storage and payment collaborators
Operations ==
    {"ActiveCampaign", "GetCampaign", "GetOrderViaPayCus", "CreateOrder",
     "ConfirmOrder", "Customer", "Charge", "GetCharge"}

\* C12: in every invocation, in flight or returned, each collaborator
\* operation has been called at most once, a call that returned an error is
\* the last call made, and the invocation has returned after it.
C12_NoRetry ==
    \A q \in Invocations :
        /\ \A j \in DOMAIN q.calls : q.calls[j].op \in Operations
        /\ \A op \in Operations : NumCalls(q, op) <= 1
        /\ \A j \in DOMAIN q.calls :
              ~Ok(q.calls[j]) => (j = Len(q.calls) /\ q.pc = "done")

\* a Show of a charged order returned after its third call, the status
\* lookup, failed, while a Confirm is in flight after its charge succeeded
C12_Witness ==
    /\ returned.leaf = "Show"
    /\ Len(returned.calls) = 3
    /\ returned.calls[3].op = "GetCharge"
    /\ ~Ok(returned.calls[3])
    /\ \E r \in Requests : reqs[r].pc = "Confirm_ConfirmOrder"

----------------------------------------------------------------------------
(* C13 *)

\* q returned from Show of an order whose stored charge ID was not empty,
\* after the lookup of the order's campaign succeeded
ShowCharged(q) ==
    /\ Returned(q, "Show")
    /\ q.order.Payment.ChargeID # ""
    /\ Len(q.calls) >= 2
    /\ Ok(q.calls[2])

\* C13: a Show of a charged order has asked the processor for the stored
\* charge ID and rendered no review view; when the lookup succeeded the
\* response is 200 and its body is the message of the reported status, where
\* "succeeded", "pending" and "failed" have three pairwise distinct messages.
C13_ShowCharged ==
    /\ ShowCharged(returned) =>
          /\ Len(returned.calls) = 3
          /\ returned.calls[3].op = "GetCharge"
          /\ returned.calls[3].a = returned.order.Payment.ChargeID
          /\ returned.tmpl = ""
          /\ returned.data = NoData
          /\ Ok(returned.calls[3]) =>
                /\ returned.status = 200
                /\ returned.chargeStatus = "succeeded" => returned.body = MsgSucceeded
                /\ returned.chargeStatus = "pending" => returned.body = MsgPending
                /\ returned.chargeStatus = "failed" => returned.body = MsgFailed
    /\ MsgSucceeded # MsgPending
    /\ MsgPending # MsgFailed
    /\ MsgFailed # MsgSucceeded

\* a Show of a charged order was told the charge is pending and said so
C13_Witness ==
    /\ ShowCharged(returned)
    /\ Ok(returned.calls[3])
    /\ returned.chargeStatus = "pending"
    /\ returned.body = MsgPending
    /\ returned.status = 200

----------------------------------------------------------------------------
(* C14 *)

\* q returned from Show of a charged order after the status lookup failed
ShowLookupFailed(q) ==
    /\ ShowCharged(q)
    /\ LastCall(q, "GetCharge")
    /\ ~Ok(q.calls[Len(q.calls)])

\* C14: a Show of a charged order whose status lookup failed has logged the
\* charge ID with the error and answered 200 with the lookup-failure message as
\* the body; no status message and no review view is rendered.
C14_ShowLookupFailure ==
    ShowLookupFailed(returned) =>
        /\ returned.logs =
              <<"error looking up a customer's charge where chg.ID = "
                    \o returned.order.Payment.ChargeID \o "; err = "
                    \o returned.calls[Len(returned.calls)].err.Message>>
        /\ returned.status = 200
        /\ returned.body = "Failed to lookup the status of your order. Please try again, or contact me if this persists - jon@calhoun.io"
        /\ returned.body \notin {MsgSucceeded, MsgPending, MsgFailed}
        /\ returned.chargeStatus = ""
        /\ returned.tmpl = ""
        /\ returned.data = NoData
        /\ returned.location = ""

\* the status lookup of an order charged with the first charge failed with an
\* error of the processor
C14_Witness ==
    /\ ShowLookupFailed(returned)
    /\ returned.order.Payment.ChargeID = "chg_1"
    /\ returned.calls[3].err.stripe
    /\ returned.status = 200
    /\ Len(returned.logs) = 1

----------------------------------------------------------------------------
(* C15 *)

\* the operations of the payment collaborator
PaymentOperations == {"Customer", "Charge", "GetCharge"}

\* q returned from Show of an order whose stored charge ID was empty, after
\* the lookup of the order's campaign succeeded
ShowUncharged(q) ==
    /\ Returned(q, "Show")
    /\ q.order.Payment.ChargeID = ""
    /\ Len(q.calls) >= 2
    /\ Ok(q.calls[2])

\* C15: a Show of an uncharged order has rendered the review view with status
\* 200; the view shows the order's payment customer ID and not its internal ID,
\* the raw address read from storage and the price of the order's campaign in
\* major units, and the invocation made no call to the payment collaborator.
C15_ShowReview ==
    ShowUncharged(returned) =>
        LET q == returned
            price == Campaigns[q.order.CampaignID].Price
        IN  /\ q.status = 200
            /\ q.tmpl = "Review"
            /\ q.body = ""
            /\ q.data.ID = q.order.Payment.CustomerID
            /\ q.data.ID # ToString(q.order.ID)
            /\ q.data.Address = q.order.Address.Raw
            /\ 100 * q.data.Price <= price
            /\ price < 100 * (q.data.Price + 1)
            /\ \A j \in DOMAIN q.calls : q.calls[j].op \notin PaymentOperations
            /\ Len(q.calls) = 2
            /\ q.calls[2] = Call("GetCampaign", q.order.CampaignID, "", "", NoError)

\* the review view of order 1 of the campaign priced 1200 was rendered for
\* /orders/cus_1 with the price 12 and the address Create derived
C15_Witness ==
    /\ ShowUncharged(returned)
    /\ returned.head = "cus_1"
    /\ returned.order.ID = 1
    /\ returned.data.ID = "cus_1"
    /\ returned.data.Price = 12
    /\ returned.data.Address = "CHRIS GREENE\nPO BOX 295\nBEDFORD PA  15522\nUNITED STATES"

----------------------------------------------------------------------------
(* C16 *)

\* q returned from Show or Confirm, its lookup of the order's campaign failed
CampaignLookupFailed(q) ==
    /\ Returned(q, "Show") \/ Returned(q, "Confirm")
    /\ Len(q.calls) >= 2
    /\ q.calls[2].op = "GetCampaign"
    /\ ~Ok(q.calls[2])

\* C16: the step in which a Show or a Confirm returns after its campaign
\* lookup failed has logged the failure and answers 500 with the generic
\* message; the invocation called neither GetCharge nor Charge nor any storage
\* write, and the step leaves orders, customers and charges as they were.
C16_CampaignLookupFailure ==
    [][CampaignLookupFailed(returned') =>
           /\ returned'.logs = <<"error retrieving order campaign\n">>
           /\ returned'.status = 500
           /\ returned'.body = "Something went wrong..."
           /\ returned'.location = ""
           /\ returned'.tmpl = ""
           /\ Len(returned'.calls) = 2
           /\ returned'.calls[1].op = "GetOrderViaPayCus"
           /\ orders' = orders
           /\ customers' = customers
           /\ charges' = charges]_vars

\* a Confirm for an order that is stored uncharged returned after its
\* campaign lookup failed, and the processor holds no charge
C16_Witness ==
    /\ CampaignLookupFailed(returned)
    /\ returned.leaf = "Confirm"
    /\ returned.status = 500
    /\ Len(orders) = 1
    /\ orders[1].Payment.ChargeID = ""
    /\ charges = <<>>

----------------------------------------------------------------------------
(* C17 *)

\* q went through a middleware that did not resolve its entity: the head
\* segment is not a number, or the storage lookup returned an error
ResolutionFailed(q) ==
    /\ q.route \in {"campaigns", "orders"}
    /\ q.pc # "idle"
    /\ \/ q.route = "campaigns" /\ ~AtoiOk(q.head)
       \/ Len(q.calls) >= 1 /\ ~Ok(q.calls[1])

\* C17: an invocation whose middleware did not resolve its entity has returned
\* with 404 "not found", whatever the error of storage was; no inner handler
\* was invoked, nothing was put in the context, nothing was logged and no
\* further call was made.  The Campaign middleware does not call storage for
\* a head segment that is not a number.
C17_NotFoundOnResolutionFailure ==
    \A q \in Invocations :
        ResolutionFailed(q) =>
            /\ q = returned
            /\ q.pc = "done"
            /\ q.status = 404
            /\ q.body = "404 page not found"
            /\ q.leaf = ""
            /\ q.ctx = {}
            /\ q.campaign = NoCampaign
            /\ q.order = NoOrder
            /\ q.logs = <<>>
            /\ q.tmpl = ""
            /\ q.location = ""
            /\ Len(q.calls) <= 1
            /\ (q.route = "campaigns" /\ ~AtoiOk(q.head)) => q.calls = <<>>

\* the Order middleware answered "not found" for an order that is stored,
\* because storage was unavailable
C17_Witness ==
    /\ ResolutionFailed(returned)
    /\ returned.route = "orders"
    /\ returned.calls[1].err = ErrConnDone
    /\ DBOrdersViaPayCus(returned.head) # {}
    /\ returned.status = 404

----------------------------------------------------------------------------
(* C18 *)

\* q has just left a middleware that resolved its entity: the middleware's
\* lookup is the only call made so far
Resolved(q) ==
    /\ q.route \in {"campaigns", "orders"}
    /\ Len(q.calls) = 1
    /\ Ok(q.calls[1])

\* what the middleware hands to the inner handler, given storage as the
\* middleware found it: the entity stored for the head segment, alone in the
\* context, and as path the tail of the path the middleware received
HandedOver(q) ==
    /\ q.leaf \in {"New", "Create", "Show", "Confirm", "NotFound"}
    /\ q.pc = IF q.leaf = "NotFound" THEN "done" ELSE q.leaf
    /\ \E a \in Arrivals :
          /\ a.req.route = q.route
          /\ a.req.method = q.method
          /\ a.req.path = "/" \o q.head \o (IF a.tail = "/" THEN "/" ELSE q.path)
          /\ q.path = a.tail
    /\ Char(q.path, 1) = "/"
    /\ Char(q.path, Len(q.path)) = "/"
    /\ q.route = "campaigns" =>
          /\ q.ctx = {"campaign"}
          /\ q.calls[1] = Call("GetCampaign", Atoi(q.head), "", "", NoError)
          /\ q.campaign = Campaigns[Atoi(q.head)]
          /\ q.order = NoOrder
    /\ q.route = "orders" =>
          /\ q.ctx = {"order"}
          /\ q.calls[1] = Call("GetOrderViaPayCus", 0, q.head, "", NoError)
          /\ q.order \in {orders[i] : i \in DOMAIN orders}
          /\ q.order.Payment.CustomerID = q.head
          /\ q.campaign = NoCampaign

\* the tails Split computes for the paths of the description
SplitExamples ==
    /\ Split("/cus_abc123/id/here") = [head |-> "cus_abc123", tail |-> "/id/here/"]
    /\ Split("/cus_abc123") = [head |-> "cus_abc123", tail |-> "/"]
    /\ Split("/cus_abc123/") = [head |-> "cus_abc123", tail |-> "/"]
    /\ Split("/1/orders/new") = [head |-> "1", tail |-> "/orders/new/"]

\* C18: the step in which a middleware resolves its entity invokes the inner
\* handler once, with exactly the entity storage holds for the head segment in
\* the context and with the tail of Split as the request path: the head
\* segment removed, the rest starting and ending with "/".
C18_InnerHandlerInvocation ==
    [][/\ SplitExamples
       /\ \A r \in Requests :
             (reqs[r].pc = "idle" /\ reqs'[r].pc # "idle" /\ Resolved(reqs'[r]))
                 => HandedOver(reqs'[r])
       /\ (Resolved(returned') /\ returned'.leaf = "NotFound")
             => HandedOver(returned')]_vars

\* a Confirm is about to run for /orders/cus_1/confirm/ with the path
\* /confirm/, while a Create is about to run for campaign 2 with the path
\* /orders/
C18_Witness ==
    /\ \E r \in Requests :
          /\ reqs[r].pc = "Confirm"
          /\ reqs[r].head = "cus_1"
          /\ reqs[r].path = "/confirm/"
          /\ reqs[r].order = orders[1]
    /\ \E r \in Requests :
          /\ reqs[r].pc = "Create"
          /\ reqs[r].campaign = Campaigns[2]
          /\ reqs[r].path = "/orders/"

----------------------------------------------------------------------------
(* C19 *)

\* q returned from New
NewReturned(q) == q.pc = "done" /\ q.leaf = "New"

\* C19: a New that found no campaign in its context has answered 500 with the
\* body "Campaign not provided" and rendered no form; a New with a campaign in
\* its context has rendered the form with the campaign's ID, its price in
\* major units and the public key of the processor.
C19_New ==
    NewReturned(returned) =>
        LET q == returned IN
        IF "campaign" \notin q.ctx
        THEN /\ q.status = 500
             /\ q.body = "Campaign not provided"
             /\ q.tmpl = ""
             /\ q.data = NoData
        ELSE /\ q.status = 200
             /\ q.body = ""
             /\ q.tmpl = "New"
             /\ q.data.Campaign.ID = q.campaign.ID
             /\ 100 * q.data.Campaign.Price <= q.campaign.Price
             /\ q.campaign.Price < 100 * (q.data.Campaign.Price + 1)
             /\ q.data.StripePublicKey = "pk_test_pfEqL5GDjl8h4pXjv8CWpi80"
             /\ q.campaign \in {Campaigns[id] : id \in DOMAIN Campaigns}

\* a New that was handed a request with an empty context answered 500, while
\* a New reached through the Campaign middleware is about to render its form
C19_Witness ==
    /\ NewReturned(returned)
    /\ returned.ctx = {}
    /\ returned.status = 500
    /\ \E r \in Requests :
          /\ reqs[r].pc = "New"
          /\ reqs[r].ctx = {"campaign"}
          /\ reqs[r].campaign = Campaigns[1]

----------------------------------------------------------------------------
(* C20 *)

\* the operations that change storage or the processor
WriteOperations == {"CreateOrder", "ConfirmOrder", "Customer", "Charge"}

\* the leaf an invocation carries while a read-only operation runs it: none
\* yet (a middleware, or ShowActive, takes the request), New, Show, ShowActive
\* or the "not found" of a mux
ReadOnlyLeaves == {"", "New", "Show", "ShowActive", "NotFound"}

\* the invocation made no call that changes storage or the processor
MadeNoWrite(q) == \A j \in DOMAIN q.calls : q.calls[j].op \notin WriteOperations

\* C20: every step taken by New, Show, ShowActive, CampaignMw or OrderMw
\* leaves the stored orders, the customers and the charges as they were, and
\* no invocation has called CreateOrder, ConfirmOrder, Customer or Charge
\* while one of them ran it: not in New, Show or ShowActive, and not by the
\* time a middleware hands it to Create or Confirm.
C20_ReadOnly ==
    [][/\ \A r \in Requests :
             (reqs'[r] # reqs[r] /\ reqs[r].leaf \in ReadOnlyLeaves)
                 => (orders' = orders /\ customers' = customers /\ charges' = charges)
       /\ reqs' = reqs
             => (orders' = orders /\ customers' = customers /\ charges' = charges)
       /\ \A q \in {reqs'[r] : r \in Requests} \cup {returned'} :
             /\ q.leaf \in ReadOnlyLeaves => MadeNoWrite(q)
             /\ q.pc \in {"Create", "Confirm"} => MadeNoWrite(q)]_vars

\* a Show of the charged order 1 reported its status while another Show of it
\* is in flight; the order still stores the one charge the processor holds
C20_Witness ==
    /\ ShowCharged(returned)
    /\ returned.status = 200
    /\ \E r \in Requests : reqs[r].leaf = "Show" /\ reqs[r].pc = "Show_GetCharge"
    /\ Len(charges) = 1
    /\ orders[1].Payment.ChargeID = charges[1].ID

----------------------------------------------------------------------------
(* C21 *)

\* the Confirm invocations in flight that have charged and are about to save
Saving == {r \in Requests : reqs[r].pc = "Confirm_ConfirmOrder"}

\* C21: nothing keeps two Confirm requests for one order apart.  Two of them
\* in flight after their charge hold two different charges, both at the
\* processor against the order's one payment customer ID; neither is undone,
\* and the step in which either saves stores its own charge ID, whatever
\* charge ID the order stored before, so the stored charge ID is one of the two.
C21_ConcurrentConfirms ==
    [][/\ \A r1, r2 \in Saving :
             (r1 # r2 /\ reqs[r1].order.ID = reqs[r2].order.ID) =>
                 /\ reqs[r1].order.Payment.ChargeID # reqs[r2].order.Payment.ChargeID
                 /\ \A r \in {r1, r2} :
                       \E k \in ChargesOf(reqs[r].order.Payment.CustomerID) :
                           charges[k].ID = reqs[r].order.Payment.ChargeID
       /\ \A r \in Saving :
             (reqs'[r].pc = "idle" /\ ConfirmSucceeded(returned')) =>
                 /\ charges' = charges
                 /\ \A i \in DOMAIN orders' :
                       orders'[i].ID = reqs[r].order.ID =>
                           orders'[i].Payment.ChargeID = reqs[r].order.Payment.ChargeID
      ]_vars

\* two Confirm requests for order 1 ran together and both charged cus_1: the
\* one that made the second charge has saved it, the one that made the first
\* charge is about to save its own over it
C21_Witness ==
    /\ Len(orders) = 1
    /\ orders[1].Payment.ChargeID = "chg_2"
    /\ \E r \in Saving :
          /\ reqs[r].order.ID = orders[1].ID
          /\ reqs[r].order.Payment.ChargeID = "chg_1"
    /\ Len(charges) = 2
    /\ \A k \in DOMAIN charges : charges[k].CustomerID = orders[1].Payment.CustomerID

----------------------------------------------------------------------------
(* C22 *)

\* the stored order q's Confirm is for, after q saved it: the raw address q
\* submitted and the charge q made, everything else as it was
SavedBy(o, q) ==
    [o EXCEPT !.Address.Raw = q.addressRaw,
              !.Payment.ChargeID = q.order.Payment.ChargeID]

\* C22: with two orders stored, a step of a Confirm for one of them changes no
\* other request; its charge is made against the payment customer ID of its
\* own order only, and its save leaves the stored record of every other order
\* as it was.  What the step makes of its own order's record and what it
\* answers depend on nothing but the request itself: the record becomes the
\* stored one with the submitted raw address and the request's own charge, the
\* answer is the redirect to its own order.
C22_DistinctOrdersIndependent ==
    [][\A r \in Requests :
          LET q == reqs[r] IN
          (q.leaf = "Confirm" /\ reqs'[r] # q) =>
              /\ \A r2 \in Requests \ {r} : reqs'[r2] = reqs[r2]
              /\ q.order.Payment.CustomerID = q.head
              /\ \A i \in DOMAIN orders :
                    orders[i].ID = q.order.ID <=> orders[i].Payment.CustomerID = q.head
              /\ q.pc = "Confirm" => (orders' = orders /\ charges' = charges)
              /\ q.pc = "Confirm_Charge" =>
                    /\ orders' = orders
                    /\ \/ charges' = charges
                       \/ /\ Len(charges') = Len(charges) + 1
                          /\ SubSeq(charges', 1, Len(charges)) = charges
                          /\ charges'[Len(charges')].CustomerID = q.head
                          /\ charges'[Len(charges')].Amount =
                                Campaigns[q.order.CampaignID].Price
              /\ q.pc = "Confirm_ConfirmOrder" =>
                    /\ charges' = charges
                    /\ DOMAIN orders' = DOMAIN orders
                    /\ \A i \in DOMAIN orders :
                          IF orders[i].ID # q.order.ID
                          THEN orders'[i] = orders[i]
                          ELSE IF ConfirmSucceeded(returned')
                               THEN /\ orders'[i] = SavedBy(orders[i], q)
                                    /\ returned'.status = 302
                                    /\ returned'.location = "/orders/" \o q.head
                               ELSE orders'[i] = orders[i]
      ]_vars

\* the Confirm for order 1 made the first charge and has just saved it, after
\* a Confirm for order 2 that ran meanwhile made and saved the second charge;
\* each order stores its own charge and the raw address submitted for it
C22_Witness ==
    /\ ConfirmSucceeded(returned)
    /\ returned.head = "cus_1"
    /\ Len(orders) = 2
    /\ orders[1].Payment.ChargeID = "chg_1"
    /\ orders[2].Payment.ChargeID = "chg_2"
    /\ charges[1].CustomerID = "cus_1"
    /\ charges[2].CustomerID = "cus_2"
    /\ orders[1].Address.Raw = "NEW ADDRESS HERE"
    /\ orders[2].Address.Raw # "NEW ADDRESS HERE"

----------------------------------------------------------------------------
(* C23 *)

\* the handler the route tree reaches for a request whose identifier the
\* middleware of its route resolves
LeafOf(method, url) ==
    LET path == Split(Arrive(Target(method, url)).path).tail IN
    CASE Route(url) = "root" -> "ShowActive"
      [] Route(url) = "campaigns" -> CampaignsLeaf(method, path)
      [] Route(url) = "orders" -> OrdersLeaf(method, path)

\* the dispatch of the URLs of the description
DispatchExamples ==
    /\ LeafOf("GET", "/") = "ShowActive"
    /\ LeafOf("GET", "/campaigns/1/orders/new") = "New"
    /\ LeafOf("POST", "/campaigns/1/orders/new") = "New"
    /\ LeafOf("POST", "/campaigns/1/orders/") = "Create"
    /\ LeafOf("GET", "/campaigns/1/orders/") = "NotFound"
    /\ LeafOf("PUT", "/campaigns/1/orders/") = "NotFound"
    /\ LeafOf("GET", "/orders/cus_1/") = "Show"
    /\ LeafOf("POST", "/orders/cus_1/confirm/") = "Confirm"

\* C23: the route tree dispatches by URL hierarchy.  An invocation run by
\* ShowActive came by a path outside /campaigns/ and /orders/.  One run by New
\* or Create came under /campaigns/ after the Campaign middleware resolved its
\* head segment: New with the tail /orders/new/, Create by POST with another
\* tail under /orders/; a request with such a tail and another method is
\* answered not found.  One run by Show or Confirm came under /orders/ after
\* the Order middleware resolved its head segment: Confirm with a tail under
\* /confirm/, Show with any other.
C23_RouteTree ==
    /\ DispatchExamples
    /\ \A q \in Invocations :
          (q.pc # "idle" /\ q.route # "direct") =>
              /\ q.route = "root" <=> q.leaf = "ShowActive"
              /\ q.leaf \in {"New", "Create"} =>
                    /\ q.route = "campaigns"
                    /\ q.ctx = {"campaign"}
                    /\ q.calls[1] = Call("GetCampaign", q.campaign.ID, "", "", NoError)
                    /\ HasPrefix(q.path, "/orders/")
                    /\ q.leaf = "New" <=> HasPrefix(q.path, "/orders/new/")
                    /\ q.leaf = "Create" => q.method = "POST"
              /\ (q.route = "campaigns" /\ q.ctx = {"campaign"}
                      /\ q.path = "/orders/" /\ q.method # "POST") =>
                    (q.leaf = "NotFound" /\ q.status = 404 /\ Len(q.calls) = 1)
              /\ q.leaf \in {"Show", "Confirm"} =>
                    /\ q.route = "orders"
                    /\ q.ctx = {"order"}
                    /\ q.calls[1] = Call("GetOrderViaPayCus", 0, q.head, "", NoError)
                    /\ q.leaf = "Confirm" <=> HasPrefix(q.path, "/confirm/")

\* a GET of /campaigns/2/orders/ was answered not found after the middleware
\* resolved campaign 2, while a POST of /campaigns/1/orders/ is in Create
C23_Witness ==
    /\ returned.route = "campaigns"
    /\ returned.method = "GET"
    /\ returned.head = "2"
    /\ returned.path = "/orders/"
    /\ returned.leaf = "NotFound"
    /\ returned.status = 404
    /\ \E r \in Requests :
          /\ reqs[r].pc = "Create"
          /\ reqs[r].method = "POST"
          /\ reqs[r].head = "1"

----------------------------------------------------------------------------
(* C24 *)

\* C24: every stored order has a non-empty payment customer ID, no two stored
\* orders share one, and so the lookup by payment customer ID finds at most
\* one order; each stored payment customer ID is the ID of a customer the
\* processor holds.
C24_CustomerIDUnique ==
    /\ \A i \in DOMAIN orders :
          /\ orders[i].Payment.CustomerID # ""
          /\ \E c \in DOMAIN customers :
                customers[c].ID = orders[i].Payment.CustomerID
          /\ Cardinality(DBOrdersViaPayCus(orders[i].Payment.CustomerID)) = 1
    /\ \A i, j \in DOMAIN orders :
          orders[i].Payment.CustomerID = orders[j].Payment.CustomerID => i = j

\* a second Create has just stored its order, for the other campaign
C24_Witness ==
    /\ CreateSucceeded(returned)
    /\ Len(orders) = 2
    /\ orders[1].CampaignID # orders[2].CampaignID
    /\ returned.order = orders[2]
    /\ returned.location = "/orders/" \o orders[2].Payment.CustomerID

----------------------------------------------------------------------------
(* C25 *)

\* C25: every stored order has the ID of a campaign storage holds.  An
\* invocation that reached Create under /campaigns/ began with a successful
\* GetCampaign for the number in its head segment, holds the campaign storage
\* returned, and passes that campaign's ID to CreateOrder; the order a Create
\* has just stored carries it.
C25_CampaignExists ==
    /\ \A i \in DOMAIN orders : DBHasCampaign(orders[i].CampaignID)
    /\ \A q \in Invocations :
          (q.leaf = "Create" /\ q.route = "campaigns") =>
              /\ AtoiOk(q.head)
              /\ DBHasCampaign(Atoi(q.head))
              /\ q.campaign = DBGetCampaign(Atoi(q.head))
              /\ q.calls[1] = Call("GetCampaign", Atoi(q.head), "", "", NoError)
              /\ \A j \in DOMAIN q.calls :
                    q.calls[j].op = "CreateOrder" => q.calls[j].n = q.campaign.ID
    /\ CreateSucceeded(returned) =>
          StoredOrder(returned.order.ID).CampaignID = returned.campaign.ID

\* a POST of /campaigns/2/orders has stored an order of campaign 2
C25_Witness ==
    /\ CreateSucceeded(returned)
    /\ returned.head = "2"
    /\ returned.calls[1] = Call("GetCampaign", 2, "", "", NoError)
    /\ Len(orders) = 1
    /\ orders[1].CampaignID = 2
    /\ DBHasCampaign(2)

----------------------------------------------------------------------------
(* C26 *)

\* C26: ShowActive makes one ActiveCampaign call and answers by its outcome.
\* No rows: the ended view with no data, status 200, nothing logged.  Any
\* other error: the error is logged, the status is 500 with the generic
\* message and no view is rendered.  Success: the active-campaign view of the
\* campaign storage returned, status 200, nothing logged.
C26_ShowActiveOutcomes ==
    \A q \in Invocations :
        q.leaf = "ShowActive" =>
            LET c == q.calls[1] IN
            /\ q.pc = "done"
            /\ Len(q.calls) = 1
            /\ c.op = "ActiveCampaign"
            /\ c.err = ErrNoRows =>
                  /\ q.tmpl = "Ended"
                  /\ q.data = NoData
                  /\ q.status = 200
                  /\ q.body = ""
                  /\ q.logs = <<>>
            /\ c.err \notin {NoError, ErrNoRows} =>
                  /\ q.status = 500
                  /\ q.body = MsgGeneric
                  /\ q.tmpl = ""
                  /\ q.data = NoData
                  /\ q.logs = <<"Error retrieving the active campaign. err = "
                                    \o c.err.Message>>
            /\ Ok(c) =>
                  /\ q.tmpl = "Show"
                  /\ q.status = 200
                  /\ q.body = ""
                  /\ q.logs = <<>>
                  /\ q.campaign \in DBActiveCampaigns
                  /\ q.data.ID = q.campaign.ID

\* ShowActive answered a failed lookup that was not "no rows"
C26_Witness ==
    /\ returned.leaf = "ShowActive"
    /\ returned.calls = <<Call("ActiveCampaign", 0, "", "", ErrConnDone)>>
    /\ returned.status = 500
    /\ returned.logs # <<>>

----------------------------------------------------------------------------
(* C27 *)

\* the length of a unit of the time-left pair
UnitLength(unit) ==
    CASE unit = "day(s)" -> Day
      [] unit = "hour(s)" -> Hour
      [] unit = "minute(s)" -> Minute
      [] unit = "second(s)" -> Second

\* the invocations of ShowActive that rendered the active-campaign view
ShownActive == {q \in Invocations : q.leaf = "ShowActive" /\ Ok(q.calls[1])}

\* the unit of the pair is the largest that fits the time left, days, hours
\* and minutes come with a value of at least 1, and exactly 2 hours is
\* (2, hour(s))
Bucketed(q) ==
    LET v == q.data.TimeLeft.Value
        u == q.data.TimeLeft.Unit
    IN  /\ u \in {"day(s)", "hour(s)", "minute(s)", "second(s)"}
        /\ u = "day(s)" <=> q.left >= Day
        /\ u = "hour(s)" <=> (q.left >= Hour /\ q.left < Day)
        /\ u = "minute(s)" <=> (q.left >= Minute /\ q.left < Hour)
        /\ u = "second(s)" <=> q.left < Minute
        /\ u # "second(s)" => v >= 1
        /\ q.left = 2 * Hour => (v = 2 /\ u = "hour(s)")

\* v is left / unit rounded down
IsFloor(v, left, unit) == v * unit <= left /\ left < (v + 1) * unit

\* v is left / unit rounded toward zero
IsTruncation(v, left, unit) ==
    IF left >= 0 THEN IsFloor(v, left, unit)
    ELSE (v - 1) * unit < left /\ left <= v * unit

\* C27 as stated: the pair is bucketed and its value is floor(left / unit).
C27_FloorOfLeft ==
    \A q \in ShownActive :
        /\ Bucketed(q)
        /\ IsFloor(q.data.TimeLeft.Value, q.left, UnitLength(q.data.TimeLeft.Unit))

\* C27, amended: the time left EndsAt - now is reported as one (value, unit)
\* pair whose unit is the largest that fits (days from 24h, hours from 1h,
\* minutes from 1min, else seconds) and whose value is left / unit rounded
\* toward zero, which is floor(left / unit) whenever left >= 0; the value is
\* at least 1 for days, hours and minutes, and exactly 2 hours is (2, hour(s)).
C27_TruncationOfLeft ==
    \A q \in ShownActive :
        /\ Bucketed(q)
        /\ IsTruncation(q.data.TimeLeft.Value, q.left,
                        UnitLength(q.data.TimeLeft.Unit))
        /\ q.left >= 0 =>
              IsFloor(q.data.TimeLeft.Value, q.left, UnitLength(q.data.TimeLeft.Unit))

\* the active campaign ends in exactly 2 hours and is shown as 2 hour(s)
C27_Witness ==
    /\ returned \in ShownActive
    /\ returned.left = 2 * Hour
    /\ returned.data.TimeLeft = [Value |-> 2, Unit |-> "hour(s)"]
    /\ returned.tmpl = "Show"

----------------------------------------------------------------------------
(* C28 *)

\* shown is price / 100 with the remainder dropped
MajorUnits(shown, price) ==
    /\ 100 * shown <= price
    /\ price < 100 * (shown + 1)
    /\ price = 1200 => shown = 12
    /\ price = 1000 => shown = 10

\* C28: the active-campaign view, the order form and the review view show the
\* price of their campaign divided by 100 with the remainder dropped, and
\* every charge Confirm asks for, and every charge the processor holds, is for
\* the unconverted price of the order's campaign.
C28_PriceUnits ==
    /\ \A q \in Invocations :
          /\ (q.leaf = "ShowActive" /\ q.tmpl = "Show") =>
                MajorUnits(q.data.Price, q.campaign.Price)
          /\ q.tmpl = "New" =>
                MajorUnits(q.data.Campaign.Price, q.campaign.Price)
          /\ q.tmpl = "Review" =>
                MajorUnits(q.data.Price, Campaigns[q.order.CampaignID].Price)
          /\ \A j \in DOMAIN q.calls :
                q.calls[j].op = "Charge" =>
                    /\ q.calls[j].n = Campaigns[q.order.CampaignID].Price
                    /\ q.calls[j].n >= 1000
    /\ \A k \in DOMAIN charges :
          \E i \in DOMAIN orders :
              /\ orders[i].Payment.CustomerID = charges[k].CustomerID
              /\ charges[k].Amount = Campaigns[orders[i].CampaignID].Price

\* the campaign priced 1999 has just been shown as 19, after a charge of 1000
\* for an order of the campaign shown as 10
C28_Witness ==
    /\ returned.leaf = "ShowActive"
    /\ returned.tmpl = "Show"
    /\ returned.campaign.Price = 1999
    /\ returned.data.Price = 19
    /\ Len(charges) >= 1
    /\ charges[1].Amount = 1000

----------------------------------------------------------------------------
(* C29 *)

\* text starts with "/" and ends with "/"
Slashed(text) ==
    /\ Len(text) >= 1
    /\ Char(text, 1) = "/"
    /\ Char(text, Len(text)) = "/"

\* C29: whatever path Clean is given, its result starts with "/" and ends
\* with "/", and cleaning a cleaned path changes nothing.
C29_CleanIdempotent ==
    [][\A r \in Requests :
          (reqs[r].pc \in {"received", "cleaned"}
              /\ reqs'[r].pc \in {"cleaned", "recleaned"}) =>
                 /\ Slashed(reqs'[r].path)
                 /\ reqs[r].pc = "cleaned" => reqs'[r].path = reqs[r].path]_vars

\* the unrooted path a/../b was cleaned to /b/ and cleaned again
C29_Witness ==
    \E r \in Requests :
        /\ reqs[r].pc = "recleaned"
        /\ reqs[r].requestURI = "a/../b"
        /\ reqs[r].path = "/b/"

----------------------------------------------------------------------------
(* C30 *)

\* "/" + head + "/" followed by tail without its leading "/"
Rejoined(head, tail) == "/" \o head \o "/" \o SubSeq(tail, 2, Len(tail))

\* the requests whose path has been split
SplitRequests == {r \in Requests : reqs[r].pc = "split"}

\* C30 as stated: for every path, the head and tail of Split rejoin to the
\* cleaned path.
C30_RejoinEveryPath ==
    \A r \in SplitRequests :
        Rejoined(reqs[r].head, reqs[r].path) = Clean(reqs[r].requestURI)

\* C30, amended: for every path that does not clean to the root path, the
\* head and tail of Split rejoin to the cleaned path, the tail reading "/"
\* when the path has a single element; for a path that cleans to the root
\* path, Split returns the empty head and the tail "/", which rejoin to "//".
C30_RejoinBelowRoot ==
    \A r \in SplitRequests :
        /\ Slashed(reqs[r].path)
        /\ IF Clean(reqs[r].requestURI) = "/"
           THEN /\ reqs[r].head = ""
                /\ reqs[r].path = "/"
                /\ Rejoined(reqs[r].head, reqs[r].path) = "//"
           ELSE /\ reqs[r].head # ""
                /\ Rejoined(reqs[r].head, reqs[r].path) = Clean(reqs[r].requestURI)
                /\ Clean(reqs[r].requestURI) = "/" \o reqs[r].head \o "/" =>
                      reqs[r].path = "/"

\* the path a/b/.. was split into the head a and the tail "/"
C30_Witness ==
    \E r \in SplitRequests :
        /\ reqs[r].requestURI = "a/b/.."
        /\ reqs[r].head = "a"
        /\ reqs[r].path = "/"

----------------------------------------------------------------------------
(* C31 *)

\* C31: Confirm is invoked for POST requests only; a request of another
\* method whose path under /orders/:id selects /confirm/ makes no charge and
\* writes nothing to storage.
C31_ConfirmOnlyPost ==
    \A q \in Invocations :
        /\ q.leaf = "Confirm" => q.method = "POST"
        /\ (q.route = "orders" /\ q.method # "POST") =>
              \A j \in DOMAIN q.calls : q.calls[j].op \notin WriteOperations

----------------------------------------------------------------------------
(* C32 *)

\* a GET of location is routed under /orders/ with the head cusID, nothing
\* after it, and Show as its handler
LoopArrival(location, cusID) ==
    \E a \in Arrivals :
        /\ a.req.method = "GET"
        /\ a.req.requestURI = location
        /\ a.req.route = "orders"
        /\ a.req.path = "/" \o cusID \o "/"
        /\ a.req.head = cusID
        /\ a.tail = "/"
        /\ OrdersLeaf("GET", a.tail) = "Show"

\* the display URL of an order, as Create and Confirm redirect to it
DisplayURL(order) == "/orders/" \o order.Payment.CustomerID

\* the invocation slot r runs before a step, as the step leaves it
Stepped(r) == IF reqs'[r].pc = "idle" THEN returned' ELSE reqs'[r]

\* C32: the location a successful Create or Confirm redirects to is
\* /orders/{paymentCustomerID} with no trailing slash, and a GET of it is
\* routed under /orders/ to Show with that ID as its head.  A GET of the
\* display URL of a stored order that the Order middleware resolves enters
\* Show with exactly that order.  Such a Show, its lookups succeeding, renders
\* the review view while the order has no charge ID, and otherwise asks the
\* processor for the stored charge and writes the message of its status.
C32_RedirectClosesLoop ==
    [][/\ (CreateSucceeded(returned') \/ ConfirmSucceeded(returned')) =>
              /\ returned'.status = 302
              /\ returned'.location = DisplayURL(returned'.order)
              /\ LoopArrival(returned'.location, returned'.order.Payment.CustomerID)
       /\ \A r \in Requests :
             /\ (reqs[r].pc = "idle" /\ reqs'[r].pc # "idle"
                     /\ reqs'[r].method = "GET") =>
                   \A i \in DOMAIN orders :
                       reqs'[r].requestURI = DisplayURL(orders[i]) =>
                           /\ reqs'[r].pc = "Show"
                           /\ reqs'[r].leaf = "Show"
                           /\ reqs'[r].ctx = {"order"}
                           /\ reqs'[r].order = orders[i]
             /\ (reqs[r].leaf = "Show" /\ reqs'[r] # reqs[r]
                     /\ reqs[r].requestURI = DisplayURL(reqs[r].order)
                     /\ Ok(Stepped(r).calls[Len(Stepped(r).calls)])) =>
                   IF reqs[r].pc = "Show_GetCharge"
                   THEN /\ returned' = Stepped(r)
                        /\ LastCall(returned', "GetCharge")
                        /\ returned'.calls[Len(returned'.calls)].a
                               = reqs[r].order.Payment.ChargeID
                        /\ returned'.status = 200
                        /\ returned'.tmpl = ""
                        /\ returned'.chargeStatus = "succeeded" =>
                               returned'.body = MsgSucceeded
                        /\ returned'.chargeStatus = "pending" =>
                               returned'.body = MsgPending
                        /\ returned'.chargeStatus = "failed" =>
                               returned'.body = MsgFailed
                   ELSE IF reqs[r].order.Payment.ChargeID = ""
                        THEN /\ returned' = Stepped(r)
                             /\ returned'.tmpl = "Review"
                             /\ returned'.status = 200
                             /\ returned'.data.ID = reqs[r].order.Payment.CustomerID
                        ELSE reqs'[r].pc = "Show_GetCharge"]_vars

\* a GET of /orders/cus_1 has been answered with the message of a succeeded
\* charge, after Create stored the order and Confirm stored its charge
C32_Witness ==
    /\ Returned(returned, "Show")
    /\ returned.method = "GET"
    /\ returned.requestURI = "/orders/cus_1"
    /\ returned.order.Payment.CustomerID = "cus_1"
    /\ returned.order.Payment.ChargeID = "chg_1"
    /\ returned.body = MsgSucceeded
    /\ Len(orders) = 1
    /\ orders[1].Payment.ChargeID = "chg_1"

----------------------------------------------------------------------------
(* C33 *)

\* the invocations the route tree has handed to a leaf handler
Routed == {q \in Invocations : q.route \in {"campaigns", "orders"}}

\* C33: an invocation the route tree hands to Show or Confirm has an order in
\* its context, one storage holds under the head segment, and one it hands to
\* New or Create has a campaign in its context, the one storage holds under
\* the head segment; a routed invocation is aborted only by Create, for a form
\* without an email.
C33_EntityInContext ==
    \A q \in Routed :
        /\ q.leaf \in {"Show", "Confirm"} =>
              /\ "order" \in q.ctx
              /\ q.order # NoOrder
              /\ q.order.Payment.CustomerID = q.head
              /\ \E i \in DOMAIN orders : orders[i].ID = q.order.ID
        /\ q.leaf \in {"New", "Create"} =>
              /\ "campaign" \in q.ctx
              /\ q.campaign # NoCampaign
              /\ DBHasCampaign(q.campaign.ID)
              /\ q.campaign = DBGetCampaign(q.campaign.ID)
        /\ q.body = "panic" => (q.leaf = "Create" /\ ~EmailParsed(q.form))
        /\ q.body = "Campaign not provided" => q.leaf \notin {"New", "Create"}

\* a Confirm holds the order of cus_1 while a Create holds campaign 2
C33_Witness ==
    \E r1, r2 \in Requests :
        /\ reqs[r1].pc = "Confirm_Charge"
        /\ reqs[r1].ctx = {"order"}
        /\ reqs[r1].order.Payment.CustomerID = "cus_1"
        /\ reqs[r2].pc = "Create"
        /\ reqs[r2].ctx = {"campaign"}
        /\ reqs[r2].campaign.ID = 2

----------------------------------------------------------------------------
(* C34 *)

\* the lines of the block: name, street 1, street 2, "city state  zip", country
AddressLines(f) ==
    <<f.Name, f.Street1, f.Street2,
      f.City \o " " \o f.State \o "  " \o f.Zip, f.Country>>

\* lines joined by newlines
RECURSIVE JoinLines(_)
JoinLines(lines) ==
    IF Len(lines) = 0 THEN ""
    ELSE IF Len(lines) = 1 THEN lines[1]
    ELSE lines[1] \o "\n" \o JoinLines(Tail(lines))

\* lines without the k-th
WithoutLine(lines, k) == SubSeq(lines, 1, k - 1) \o SubSeq(lines, k + 1, Len(lines))

\* the requests whose order has been built from the form
BuiltOrders == {r \in Requests : reqs[r].pc = "Create_CreateOrder"}

\* text has two adjacent newlines at position k
BlankAt(text, k) == k + 1 <= Len(text) /\ SubSeq(text, k, k + 1) = "\n\n"

\* raw is text in upper case with its first pair of adjacent newlines, if it
\* has one, made a single newline
FirstBlankCollapsed(raw, text) ==
    IF \E k \in 1 .. Len(text) : BlankAt(text, k)
    THEN \E k \in 1 .. Len(text) :
            /\ BlankAt(text, k)
            /\ \A j \in 1 .. k - 1 : ~BlankAt(text, j)
            /\ raw = ToUpper(SubSeq(text, 1, k) \o SubSeq(text, k + 2, Len(text)))
    ELSE raw = ToUpper(text)

\* C34 as stated: the block is the five lines joined by newlines in upper
\* case, without the street-2 line when that line is empty and with every
\* line otherwise.
C34_OnlyStreet2Collapsed ==
    \A r \in BuiltOrders :
        LET f == reqs[r].form IN
        reqs[r].order.Address.Raw =
            ToUpper(JoinLines(IF f.Street2 = "" THEN WithoutLine(AddressLines(f), 3)
                              ELSE AddressLines(f)))

\* C34, amended: the block is the five lines joined by newlines, with the
\* first pair of adjacent newlines of that text made one, in upper case.  For
\* fields that hold no newline this removes the street-2 line when it is empty
\* and street 1 is not, removes the street-1 line when it is empty, whether or
\* not street 2 is, and removes nothing when both are non-empty.
C34_FirstBlankCollapsed ==
    \A r \in BuiltOrders :
        LET f == reqs[r].form
            lines == AddressLines(f)
            raw == reqs[r].order.Address.Raw
        IN  /\ FirstBlankCollapsed(raw, JoinLines(lines))
            /\ IndexOf(f.Name, "\n") = 0 =>
                  raw = ToUpper(JoinLines(
                            IF f.Street1 = "" THEN WithoutLine(lines, 2)
                            ELSE IF f.Street2 = "" THEN WithoutLine(lines, 3)
                            ELSE lines))

\* the order of a form with street 1 and no street 2 has been built
C34_Witness ==
    \E r \in BuiltOrders :
        /\ reqs[r].form.Name = "Jane Doe"
        /\ reqs[r].form.Street1 = "1 Main St"
        /\ reqs[r].form.Street2 = ""
        /\ reqs[r].order.Address.Raw = "JANE DOE\n1 MAIN ST\nBEDFORD PA  15522\nUNITED STATES"

----------------------------------------------------------------------------
(* C35 *)

\* the calls of q that write to storage
StorageWrites(q) ==
    {j \in DOMAIN q.calls : q.calls[j].op \in {"CreateOrder", "ConfirmOrder"}}

\* C35: the step in which a Confirm succeeds is its only write to storage, a
\* single ConfirmOrder call; it leaves every other order as it was and
\* changes the order of the invocation in its raw address, which becomes the
\* submitted one, and its charge ID, which becomes that of the charge just
\* made, and in nothing else: the structured address, the customer, the
\* campaign ID, the payment source and the payment customer ID stay.  Every
\* earlier step of a Confirm leaves storage unchanged.
C35_ConfirmFrame ==
    [][\A r \in Requests :
          (reqs[r].leaf = "Confirm" /\ reqs'[r] # reqs[r]) =>
              IF ConfirmSucceeded(returned') /\ reqs[r].pc = "Confirm_ConfirmOrder"
              THEN LET q == reqs[r] IN
                   /\ Cardinality(StorageWrites(returned')) = 1
                   /\ DOMAIN orders' = DOMAIN orders
                   /\ \A i \in DOMAIN orders :
                         IF orders[i].ID = q.order.ID
                         THEN /\ orders'[i].Address.Raw = q.addressRaw
                              /\ orders'[i].Payment.ChargeID = q.order.Payment.ChargeID
                              /\ orders'[i].ID = orders[i].ID
                              /\ orders'[i].CampaignID = orders[i].CampaignID
                              /\ orders'[i].Customer = orders[i].Customer
                              /\ orders'[i].Payment.Source = orders[i].Payment.Source
                              /\ orders'[i].Payment.CustomerID
                                     = orders[i].Payment.CustomerID
                              /\ [orders'[i].Address EXCEPT !.Raw = ""]
                                     = [orders[i].Address EXCEPT !.Raw = ""]
                         ELSE orders'[i] = orders[i]
              ELSE orders' = orders]_vars

\* a Confirm has just stored an edited raw address and its charge; the
\* structured address of the order is still the one Create stored
C35_Witness ==
    /\ ConfirmSucceeded(returned)
    /\ returned.order.ID = 1
    /\ returned.addressRaw = "NEW ADDRESS HERE"
    /\ orders[1].Address.Raw = "NEW ADDRESS HERE"
    /\ orders[1].Address.Street1 = "PO Box 295"
    /\ orders[1].Address.City = "Bedford"
    /\ orders[1].Customer.Name = "Chris Greene"
    /\ orders[1].Payment.ChargeID = returned.order.Payment.ChargeID
    /\ orders[1].Payment.ChargeID # ""

====
